---- MODULE Spec2Model ----
(***************************************************************************)
(* Feed monitor of sora-dl (src/src/utils/feed-monitor.ts): the sequential *)
(* acquisition loop, the snapshot store, the collection comparison, the    *)
(* recursive object diff and the report aggregation.                       *)
(*                                                                         *)
(* JSON values are encoded as tagged pairs <<tag, payload>>; a mapping     *)
(* keeps its keys in insertion order (a sequence of <<key, value>> pairs), *)
(* because both JSON.stringify and for-in observe that order.              *)
(***************************************************************************)
EXTENDS Integers, Sequences, FiniteSets, TLC

VARIABLES
    iterations,        \* this.iterations
    currentIteration,  \* this.currentIteration
    feedFiles,         \* this.feedFiles, the snapshot store
    startTime,         \* this.startTime
    now,               \* the wall clock read by Date.now() / new Date()
    pc,                \* position of run(): idle, acquiring, waiting, completed, reported, failed
    i,                 \* loop variable of run()
    lastCall,          \* the public operation invoked last ("none" before any)
    thrown,            \* TRUE when the last public call rejected
    thrownError,       \* the error that call rejected with (Undefined when it did not)
    runEvents,         \* what run() has done so far, while run() is the last call made
    comparisons,       \* what compareFeeds() returned, while it is the last call made
    report,            \* <<r>>: the report r built by the last call made; <<>>: none
    obj1, obj2,        \* arguments of getObjectDifferences
    differences,       \* value returned by getObjectDifferences(obj1, obj2)
    videos,            \* downloadAllFromFeed: the videos argument
    maxConcurrent,     \* downloadAllFromFeed: the maxConcurrent argument
    overwrite,         \* VideoDownloader: this.overwrite
    fileSystem,        \* the files under outputDir: path -> <<state, writer>>
    batchStart,        \* downloadAllFromFeed: loop variable i
    downloadPc,        \* downloadAllFromFeed: unused, loop, awaiting, returned
    downloads,         \* per video of the list: state of its downloadVideo call
    results,           \* downloadAllFromFeed: results
    wrapper,           \* the retry wrapper that was called
    maxAttempts,       \* its maxAttempts
    attempt,           \* its loop variable
    outcomes,          \* how each invocation of the operation settled so far
    delays,            \* the delays it has slept, in ms
    retryPc,           \* unused, calling, delaying, returned, threw
    retryResult,       \* the value it returned or the error it threw
    cookies,           \* SoraAPI: the cookies argument of the constructor
    logLevel,          \* Logger: this.logLevel
    logEntries,        \* Logger: the contexts of the entries emitted so far
    content,           \* escapeControlCharsInsideStrings: the input
    sanitized,         \* its result
    sanitizedAgain,    \* its result on that result
    escapePc           \* unused, called, escaped, escapedAgain

vars == <<iterations, currentIteration, feedFiles, startTime, now, pc, i,
          lastCall, thrown, thrownError, runEvents, comparisons, report,
          obj1, obj2, differences,
          videos, maxConcurrent, overwrite, fileSystem, batchStart, downloadPc, downloads,
          results, wrapper, maxAttempts, attempt, outcomes, delays, retryPc, retryResult,
          cookies, logLevel, logEntries, content, sanitized, sanitizedAgain, escapePc>>

storeVars == <<iterations, currentIteration, feedFiles, startTime, now, pc, i,
                 thrown, thrownError, runEvents, comparisons, report>>

diffVars == <<obj1, obj2, differences>>

downloadVars == <<videos, maxConcurrent, overwrite, fileSystem, batchStart, downloadPc,
                  downloads, results>>

retryVars == <<wrapper, maxAttempts, attempt, outcomes, delays, retryPc, retryResult>>

loggerVars == <<cookies, logLevel, logEntries>>

processorVars == <<content, sanitized, sanitizedAgain, escapePc>>

----------------------------------------------------------------------------
(* JSON values *)

Num(n) == <<"number", n>>
Str(s) == <<"string", s>>
Null == <<"null", 0>>
Undefined == <<"undefined", 0>>
Arr(elems) == <<"array", elems>>
Obj(pairs) == <<"object", pairs>>

NaN == <<"NaN", 0>>
PosInfinity == <<"Infinity", 0>>
NegInfinity == <<"-Infinity", 0>>

\* the object test with arrays excluded (Array.isArray guard)
IsObjectLikeExceptArrays(v) == v[1] = "object"

\* typeof v === 'object' && v !== null
IsObjectLike(v) == v[1] \in {"array", "object"}

\* the keys a for-in loop enumerates, in enumeration order
ForInKeys(v) ==
    IF v[1] = "object" THEN [k \in 1..Len(v[2]) |-> v[2][k][1]]
    ELSE IF v[1] = "array" THEN [k \in 1..Len(v[2]) |-> ToString(k - 1)]
    ELSE <<>>

\* key in o
HasKey(o, key) ==
    IF o[1] = "object" THEN \E k \in 1..Len(o[2]) : o[2][k][1] = key
    ELSE IF o[1] = "array" THEN \E k \in 1..Len(o[2]) : ToString(k - 1) = key
    ELSE FALSE

\* o[key]; undefined when o has no such key or is undefined (o?.key)
Get(o, key) ==
    IF o[1] = "object" /\ HasKey(o, key)
    THEN o[2][CHOOSE k \in 1..Len(o[2]) : o[2][k][1] = key][2]
    ELSE IF o[1] = "array" /\ HasKey(o, key)
    THEN o[2][CHOOSE k \in 1..Len(o[2]) : ToString(k - 1) = key]
    ELSE Undefined

\* a !== b, reached in compareObjects only when a or b is not an object;
\* two distinct parsed objects are never the same reference
StrictNotEqual(a, b) ==
    IF IsObjectLike(a) /\ IsObjectLike(b) THEN TRUE ELSE a # b

RECURSIVE JoinStrings(_, _)
JoinStrings(parts, sep) ==
    IF Len(parts) = 0 THEN ""
    ELSE IF Len(parts) = 1 THEN parts[1]
    ELSE parts[1] \o sep \o JoinStrings(Tail(parts), sep)

\* JSON.stringify(v)
RECURSIVE JSONstringify(_)
JSONstringify(v) ==
    CASE v[1] = "number" -> ToString(v[2])
      [] v[1] = "string" -> "\"" \o v[2] \o "\""
      [] v[1] = "null" -> "null"
      [] v[1] = "array" ->
            "[" \o JoinStrings([k \in 1..Len(v[2]) |-> JSONstringify(v[2][k])], ",") \o "]"
      [] v[1] = "object" ->
            "{" \o JoinStrings([k \in 1..Len(v[2]) |->
                        "\"" \o v[2][k][1] \o "\":" \o JSONstringify(v[2][k][2])], ",") \o "}"

----------------------------------------------------------------------------
(* getObjectDifferences *)

RECURSIVE compareObjects(_, _, _)
\* compareKey looking the dotted path up in o1 instead of the key
compareKeyLooksUpPath(o1, o2, path, key) ==
    LET currentPath == IF path # "" THEN path \o "." \o key ELSE key
        v1 == Get(o1, key)
        v2 == Get(o2, key)
    IN  IF ~HasKey(o1, currentPath)
        THEN << [path |-> currentPath, type |-> "added",
                 oldValue |-> Undefined, newValue |-> v2] >>
        ELSE IF IsObjectLike(v2) /\ IsObjectLike(v1)
        THEN compareObjects(v1, v2, currentPath)
        ELSE IF StrictNotEqual(v1, v2)
        THEN << [path |-> currentPath, type |-> "modified",
                 oldValue |-> v1, newValue |-> v2] >>
        ELSE <<>>

compareKey(o1, o2, path, key) ==
    LET currentPath == IF path # "" THEN path \o "." \o key ELSE key
        v1 == Get(o1, key)
        v2 == Get(o2, key)
    IN  IF ~HasKey(o1, key)
        THEN << [path |-> currentPath, type |-> "added",
                 oldValue |-> Undefined, newValue |-> v2] >>
        ELSE IF IsObjectLike(v2) /\ IsObjectLike(v1)
        THEN compareObjects(v1, v2, currentPath)
        ELSE IF StrictNotEqual(v1, v2)
        THEN << [path |-> currentPath, type |-> "modified",
                 oldValue |-> v1, newValue |-> v2] >>
        ELSE <<>>

RECURSIVE compareKeysFromKeysOfPrevious(_, _, _, _)
\* compareKeysFrom with the loop running over the keys of o1
compareKeysFromKeysOfPrevious(o1, o2, path, k) ==
    IF k > Len(ForInKeys(o1)) THEN <<>>
    ELSE compareKey(o1, o2, path, ForInKeys(o1)[k])
            \o compareKeysFromKeysOfPrevious(o1, o2, path, k + 1)

RECURSIVE compareKeysFrom(_, _, _, _)
compareKeysFrom(o1, o2, path, k) ==
    IF k > Len(ForInKeys(o2)) THEN <<>>
    ELSE compareKey(o1, o2, path, ForInKeys(o2)[k])
            \o compareKeysFrom(o1, o2, path, k + 1)

compareObjects(o1, o2, path) == compareKeysFrom(o1, o2, path, 1)

getObjectDifferences(o1, o2) == compareObjects(o1, o2, "")

----------------------------------------------------------------------------
(* compareFeeds *)

\* data.items?.length || 0
ItemsLength(data) ==
    LET items == Get(data, "items")
    IN IF items[1] = "array" THEN Len(items[2]) ELSE 0

\* data.items || []
ItemsOrEmpty(data) ==
    LET items == Get(data, "items")
    IN IF items[1] = "array" THEN items[2] ELSE <<>>

\* item.post?.id
PostId(item) == Get(Get(item, "post"), "id")

\* the argument of substring(0, 100)
SummaryTextLength == 100

\* item.post?.text?.substring(0, 100) + '...'
SummaryText(item) ==
    LET text == Get(Get(item, "post"), "text")
    IN IF text[1] = "string"
       THEN Str((IF Len(text[2]) > SummaryTextLength
                 THEN SubSeq(text[2], 1, SummaryTextLength) ELSE text[2]) \o "...")
       ELSE Str("undefined...")

\* { id, text, posted_at } pushed to newItems / removedItems
ItemSummary(item) ==
    [id |-> PostId(item), text |-> SummaryText(item),
     posted_at |-> Get(Get(item, "post"), "posted_at")]

\* new Set(items.map(item => item.post?.id))
IdSet(items) == {PostId(items[k]) : k \in 1..Len(items)}

RECURSIVE FilterSeq(_, _, _)
\* the elements of seq, in order, whose position satisfies keep
FilterSeq(seq, keep, k) ==
    IF k > Len(seq) THEN <<>>
    ELSE (IF keep[k] THEN <<seq[k]>> ELSE <<>>) \o FilterSeq(seq, keep, k + 1)

\* the new-items loop skipped when the previous snapshot has no items array
NewItemsSkipsMalformed(previous, current) ==
    LET cur == ItemsOrEmpty(current)
        previousIds == IdSet(ItemsOrEmpty(previous))
    IN IF Get(previous, "items")[1] # "array" THEN <<>>
       ELSE FilterSeq([k \in 1..Len(cur) |-> ItemSummary(cur[k])],
                      [k \in 1..Len(cur) |-> PostId(cur[k]) \notin previousIds], 1)

\* for (const item of current.items || []) if (!previousIds.has(id)) newItems.push(..)
NewItems(previous, current) ==
    LET cur == ItemsOrEmpty(current)
        previousIds == IdSet(ItemsOrEmpty(previous))
    IN FilterSeq([k \in 1..Len(cur) |-> ItemSummary(cur[k])],
                 [k \in 1..Len(cur) |-> PostId(cur[k]) \notin previousIds], 1)

\* the removed-items loop left as a copy of the new-items loop
RemovedItemsCopiesNewLoop(previous, current) == NewItems(previous, current)

\* for (const item of previous.items || []) if (!currentIds.has(id)) removedItems.push(..)
RemovedItems(previous, current) ==
    LET prev == ItemsOrEmpty(previous)
        currentIds == IdSet(ItemsOrEmpty(current))
    IN FilterSeq([k \in 1..Len(prev) |-> ItemSummary(prev[k])],
                 [k \in 1..Len(prev) |-> PostId(prev[k]) \notin currentIds], 1)

\* (previous.items || []).find(item => item.post?.id === currentItem.post?.id)
FindPrevious(previous, currentItem) ==
    LET prev == ItemsOrEmpty(previous)
        hits == {k \in 1..Len(prev) : PostId(prev[k]) = PostId(currentItem)}
    IN IF hits = {} THEN Undefined
       ELSE prev[CHOOSE k \in hits : \A h \in hits : k <= h]

\* modification decided by a non-empty field diff instead of the whole-item check
IsModifiedByFieldDiff(previousItem, currentItem) ==
    /\ previousItem # Undefined
    /\ getObjectDifferences(previousItem, currentItem) # <<>>

\* previousItem && JSON.stringify(currentItem) !== JSON.stringify(previousItem)
IsModified(previousItem, currentItem) ==
    /\ previousItem # Undefined
    /\ JSONstringify(currentItem) # JSONstringify(previousItem)

ModifiedItems(previous, current) ==
    LET cur == ItemsOrEmpty(current)
        prevOf == [k \in 1..Len(cur) |-> FindPrevious(previous, cur[k])]
    IN FilterSeq([k \in 1..Len(cur) |->
                     [id |-> PostId(cur[k]),
                      changes |-> IF prevOf[k] = Undefined THEN <<>>
                                  ELSE getObjectDifferences(prevOf[k], cur[k])]],
                 [k \in 1..Len(cur) |-> IsModified(prevOf[k], cur[k])], 1)

\* the comparison with totalItems.difference computed as previous - current
ComparisonDifferenceReversed(files, idx) ==
    LET current == files[idx + 1].data
        previous == files[idx].data
    IN [iteration |-> idx + 1,
        timestamp |-> files[idx + 1].timestamp,
        previousTimestamp |-> files[idx].timestamp,
        changes |->
           [totalItems |-> [previous |-> ItemsLength(previous),
                            current |-> ItemsLength(current),
                            difference |-> ItemsLength(previous) - ItemsLength(current)],
            newItems |-> NewItems(previous, current),
            removedItems |-> RemovedItems(previous, current),
            modifiedItems |-> ModifiedItems(previous, current)]]

\* the comparison pushed for loop index idx (0-based, 1 <= idx < feedFiles.length)
Comparison(files, idx) ==
    LET current == files[idx + 1].data
        previous == files[idx].data
    IN [iteration |-> idx + 1,
        timestamp |-> files[idx + 1].timestamp,
        previousTimestamp |-> files[idx].timestamp,
        changes |->
           [totalItems |-> [previous |-> ItemsLength(previous),
                            current |-> ItemsLength(current),
                            difference |-> ItemsLength(current) - ItemsLength(previous)],
            newItems |-> NewItems(previous, current),
            removedItems |-> RemovedItems(previous, current),
            modifiedItems |-> ModifiedItems(previous, current)]]

\* the loop of compareFeeds stopping one snapshot early (i < length - 1)
compareFeedsStopsEarly(files) == [idx \in 1..(Len(files) - 2) |-> Comparison(files, idx)]

compareFeeds(files) == [idx \in 1..(Len(files) - 1) |-> Comparison(files, idx)]

----------------------------------------------------------------------------
(* generateComparisonReport *)

RECURSIVE GCD(_, _)
GCD(a, b) == IF b = 0 THEN a ELSE GCD(b, a % b)

\* a / b on IEEE doubles, for integers a >= 0 and b: x/0 is NaN or an
\* infinity, an inexact quotient is kept as the reduced fraction <<p, q>>
Divide(a, b) ==
    IF b = 0 THEN (IF a = 0 THEN NaN ELSE PosInfinity)
    ELSE IF a % b = 0 THEN Num(a \div b)
    ELSE <<"fraction", <<a \div GCD(a, b), b \div GCD(a, b)>>>>

RECURSIVE SumSeq(_)
\* reduce((sum, x) => sum + x, 0)
SumSeq(seq) == IF seq = <<>> THEN 0 ELSE seq[1] + SumSeq(Tail(seq))

\* Math.max(...counts): -Infinity for no arguments
MathMax(counts) ==
    IF counts = <<>> THEN NegInfinity
    ELSE Num(CHOOSE m \in {counts[k] : k \in 1..Len(counts)} :
                \A k \in 1..Len(counts) : m >= counts[k])

\* minItems computed with Math.max
MathMinCallsMax(counts) == MathMax(counts)

\* Math.min(...counts): Infinity for no arguments
MathMin(counts) ==
    IF counts = <<>> THEN PosInfinity
    ELSE Num(CHOOSE m \in {counts[k] : k \in 1..Len(counts)} :
                \A k \in 1..Len(counts) : m <= counts[k])

\* item.post?.attachments?.some(att => att.kind === 'sora')
HasSoraAttachment(item) ==
    LET attachments == Get(Get(item, "post"), "attachments")
    IN /\ attachments[1] = "array"
       /\ \E k \in 1..Len(attachments[2]) : Get(attachments[2][k], "kind") = Str("sora")

\* (file.data.items || []).filter(..).length
VideoCount(data) ==
    Cardinality({k \in 1..Len(ItemsOrEmpty(data)) : HasSoraAttachment(ItemsOrEmpty(data)[k])})

ItemCounts(files) == [k \in 1..Len(files) |-> ItemsLength(files[k].data)]

\* the report object built by generateComparisonReport at clock value t
BuildReport(files, its, start, t) ==
    LET comps == compareFeeds(files)
        totalDuration == t - start
    IN [summary |-> [totalIterations |-> its,
                     totalDuration |-> totalDuration,
                     averageInterval |-> Divide(totalDuration, its),
                     startTime |-> start,
                     endTime |-> t],
        iterations |-> [k \in 1..Len(files) |->
                           [iteration |-> files[k].iteration,
                            timestamp |-> files[k].timestamp,
                            itemCount |-> ItemsLength(files[k].data),
                            videoCount |-> VideoCount(files[k].data)]],
        comparisons |-> comps,
        statistics |->
           [totalNewItems |-> SumSeq([k \in 1..Len(comps) |-> Len(comps[k].changes.newItems)]),
            totalRemovedItems |-> SumSeq([k \in 1..Len(comps) |-> Len(comps[k].changes.removedItems)]),
            totalModifiedItems |-> SumSeq([k \in 1..Len(comps) |-> Len(comps[k].changes.modifiedItems)]),
            averageItemsPerIteration |-> Divide(SumSeq(ItemCounts(files)), Len(files)),
            minItems |-> MathMin(ItemCounts(files)),
            maxItems |-> MathMax(ItemCounts(files))]]

----------------------------------------------------------------------------
(* Bounds and input universes *)

MaxIterations == 2   \* largest configured number of iterations
MaxStore == 3        \* largest number of snapshots kept in the store
MaxItems == 2        \* largest number of items in a compared snapshot
MaxArrayLen == 2     \* longest array of numbers in a diffed document

\* { post: { id }, likes }
LikesItem(id, likes) ==
    Obj(<< <<"post", Obj(<< <<"id", Str(id)>> >>)>>, <<"likes", Num(likes)>> >>)

\* the same key/value pairs as LikesItem, likes first
LikesFirstItem(id, likes) ==
    Obj(<< <<"likes", Num(likes)>>, <<"post", Obj(<< <<"id", Str(id)>> >>)>> >>)

\* { post: { id }, meta: { .. } }
MetaItem(id, meta) ==
    Obj(<< <<"post", Obj(<< <<"id", Str(id)>> >>)>>, <<"meta", Obj(meta)>> >>)

\* { post: { id, text, posted_at, attachments: [{ kind }] }, likes }
VideoItem(id, kind, likes) ==
    Obj(<< <<"post", Obj(<< <<"id", Str(id)>>, <<"text", Str("hello")>>,
                            <<"posted_at", Str("2025-10-01")>>,
                            <<"attachments", Arr(<< Obj(<< <<"kind", Str(kind)>> >>) >>)>> >>)>>,
           <<"likes", Num(likes)>> >>)

\* the items of the snapshots handed to compareFeeds
CompareItems ==
    { LikesItem("a", 1), LikesFirstItem("a", 1), LikesItem("b", 2),
      VideoItem("c", "sora", 1),
      MetaItem("a", << <<"a", Num(1)>>, <<"b", Num(2)>> >>),
      MetaItem("a", << <<"a", Num(1)>> >>) }

SeqsUpTo(S, n) == UNION {[1..m -> S] : m \in 0..n}

\* { items: [..] }
Feed(items) == Obj(<< <<"items", Arr(items)>> >>)

\* a feed document without an items field
MalformedFeed == Obj(<< <<"cursor", Null>> >>)

CompareFeedData == {Feed(items) : items \in SeqsUpTo(CompareItems, MaxItems)} \cup {MalformedFeed}

\* what one fetch can put into the output file during a monitored run
FeedPayloads ==
    { MalformedFeed,
      Feed(<< LikesItem("a", 1), LikesItem("b", 2) >>),
      Feed(<< LikesItem("b", 5), VideoItem("c", "sora", 1) >>),
      Feed(<< VideoItem("c", "image", 1) >>) }

Scalars == {Num(1), Num(2), Str("x"), Null}

NumberArrays == {Arr(elems) : elems \in SeqsUpTo({Num(1), Num(2)}, MaxArrayLen)}

ObjectArrays == {Arr(<< Obj(<< <<"a", Num(n)>> >>) >>) : n \in {1, 2}}

Leaves == Scalars \cup NumberArrays \cup ObjectArrays

SmallLeaves == {Num(1), Num(2), Null, Arr(<< Num(1) >>), Arr(<< Num(1), Num(2) >>)}

FlatObjects ==
    {Obj(<<>>)}
    \cup {Obj(<< <<key, v>> >>) : key \in {"a", "b"}, v \in Leaves}
    \cup {Obj(<< <<"a", v>>, <<"b", w>> >>) : v \in SmallLeaves, w \in SmallLeaves}
    \cup {Obj(<< <<"b", w>>, <<"a", v>> >>) : v \in SmallLeaves, w \in SmallLeaves}

NestedObjects ==
    {Obj(<< <<"meta", m>> >>) : m \in FlatObjects}
    \cup {Obj(<< <<"meta", a>> >>) : a \in NumberArrays}
    \cup {Obj(<< <<"tags", a>>, <<"meta", Obj(<< <<"a", v>> >>)>> >>) :
             a \in NumberArrays, v \in SmallLeaves}

\* the errors fetchFeed() can reject with: the rejection of execAsync, the missing
\* output file, the SyntaxError of JSON.parse
ExecError ==
    Obj(<< <<"name", Str("Error")>>,
           <<"message", Str("Command failed: node dist/cli.js feed --pretty --output")>>,
           <<"code", Num(1)>> >>)

MissingFileError ==
    Obj(<< <<"name", Str("Error")>>, <<"message", Str("Output file was not created")>> >>)

ParseError ==
    Obj(<< <<"name", Str("SyntaxError")>>, <<"message", Str("Unexpected token")>> >>)

FetchErrors == {ExecError, MissingFileError, ParseError}

\* the documents handed to getObjectDifferences
DocSet == FlatObjects \cup NestedObjects \cup NumberArrays \cup ObjectArrays

----------------------------------------------------------------------------
(* FeedMonitor: constructor, fetchFeed, run, compareFeeds, generateComparisonReport *)

Quiescent == pc \in {"idle", "reported", "failed"}

\* no FeedMonitor was constructed
MonitorUnused ==
    /\ iterations = 1
    /\ currentIteration = 0
    /\ feedFiles = <<>>
    /\ startTime = 0
    /\ now = 0
    /\ pc = "idle"
    /\ i = 0
    /\ lastCall = "none"
    /\ thrown = FALSE
    /\ thrownError = Undefined
    /\ runEvents = <<>>
    /\ comparisons = <<>>
    /\ report = <<>>
    /\ obj1 = Obj(<<>>)
    /\ obj2 = Obj(<<>>)
    /\ differences = <<>>

\* no VideoDownloader call was made
DownloaderUnused ==
    /\ videos = <<>>
    /\ maxConcurrent = Num(0)
    /\ overwrite = FALSE
    /\ fileSystem = <<>>
    /\ batchStart = Num(0)
    /\ downloadPc = "unused"
    /\ downloads = <<>>
    /\ results = <<>>

\* no retry wrapper was called
RetryUnused ==
    /\ wrapper = "none"
    /\ maxAttempts = 0
    /\ attempt = 0
    /\ outcomes = <<>>
    /\ delays = <<>>
    /\ retryPc = "unused"
    /\ retryResult = Undefined

\* enum LogLevel
LogLevelINFO == 2
LogLevelDEBUG == 3
LogLevelTRACE == 4

\* no SoraAPI was constructed
LoggerUnused ==
    /\ cookies = Undefined
    /\ logLevel = LogLevelINFO
    /\ logEntries = <<>>

\* no LocalFeedProcessor was constructed
ProcessorUnused ==
    /\ content = ""
    /\ sanitized = ""
    /\ sanitizedAgain = ""
    /\ escapePc = "unused"

\* constructor
Init ==
    /\ iterations \in 1..MaxIterations
    /\ currentIteration = 0
    /\ feedFiles = <<>>
    /\ startTime = 0
    /\ now = 0
    /\ pc = "idle"
    /\ i = 0
    /\ lastCall = "none"
    /\ thrown = FALSE
    /\ thrownError = Undefined
    /\ runEvents = <<>>
    /\ comparisons = <<>>
    /\ report = <<>>
    /\ obj1 = Obj(<<>>)
    /\ obj2 = Obj(<<>>)
    /\ differences = <<>>
    /\ DownloaderUnused
    /\ RetryUnused
    /\ LoggerUnused
    /\ ProcessorUnused

\* this.feedFiles.push({ file, timestamp, iteration: this.currentIteration + 1, data })
Pushed(files, cur, data) ==
    Append(files, [timestamp |-> now, iteration |-> cur + 1, data |-> data])

\* a direct call of fetchFeed() that resolves
FetchFeed ==
    /\ Quiescent
    /\ Len(feedFiles) < MaxStore
    /\ \E data \in FeedPayloads : feedFiles' = Pushed(feedFiles, currentIteration, data)
    /\ now' = now + 1
    /\ lastCall' = "fetchFeed"
    /\ thrown' = FALSE
    /\ thrownError' = Undefined
    /\ runEvents' = <<>>
    /\ comparisons' = <<>>
    /\ report' = <<>>
    /\ UNCHANGED <<iterations, currentIteration, startTime, pc, i>>
    /\ UNCHANGED <<diffVars, downloadVars, retryVars, loggerVars, processorVars>>

\* a direct call of fetchFeed() that rejects (command failed, file missing, invalid JSON):
\* catch (error) { ...; throw error; }
FetchFeedFails ==
    /\ Quiescent
    /\ lastCall' = "fetchFeed"
    /\ thrown' = TRUE
    /\ \E error \in FetchErrors : thrownError' = error
    /\ runEvents' = <<>>
    /\ comparisons' = <<>>
    /\ report' = <<>>
    /\ UNCHANGED <<iterations, currentIteration, feedFiles, startTime, now, pc, i>>
    /\ UNCHANGED <<diffVars, downloadVars, retryVars, loggerVars, processorVars>>

\* run() is called: the loop starts with i = 0
Run ==
    /\ Quiescent
    /\ Len(feedFiles) + iterations <= MaxStore
    /\ pc' = "acquiring"
    /\ i' = 0
    /\ lastCall' = "run"
    /\ thrown' = FALSE
    /\ thrownError' = Undefined
    /\ runEvents' = <<>>
    /\ comparisons' = <<>>
    /\ report' = <<>>
    /\ UNCHANGED <<iterations, currentIteration, feedFiles, startTime, now>>
    /\ UNCHANGED <<diffVars, downloadVars, retryVars, loggerVars, processorVars>>

\* loop body of run() without the test i < this.iterations - 1 around the wait
RunFetchAlwaysWaits ==
    /\ pc = "acquiring"
    /\ currentIteration' = i
    /\ \E data \in FeedPayloads : feedFiles' = Pushed(feedFiles, i, data)
    /\ now' = now + 1
    /\ runEvents' = Append(runEvents, <<"fetch", i + 1>>)
    /\ pc' = "waiting"
    /\ UNCHANGED <<iterations, startTime, i, lastCall, thrown, thrownError, comparisons,
                   report>>
    /\ UNCHANGED <<diffVars, downloadVars, retryVars, loggerVars, processorVars>>

\* loop body of run(): this.currentIteration = i; await this.fetchFeed() resolves;
\* the interval wait follows unless this was the last iteration
RunFetch ==
    /\ pc = "acquiring"
    /\ currentIteration' = i
    /\ \E data \in FeedPayloads : feedFiles' = Pushed(feedFiles, i, data)
    /\ now' = now + 1
    /\ runEvents' = Append(runEvents, <<"fetch", i + 1>>)
    /\ pc' = IF i < iterations - 1 THEN "waiting" ELSE "completed"
    /\ UNCHANGED <<iterations, startTime, i, lastCall, thrown, thrownError, comparisons,
                   report>>
    /\ UNCHANGED <<diffVars, downloadVars, retryVars, loggerVars, processorVars>>

\* run() with the try/catch moved inside the loop: a rejected fetch is logged and
\* the loop goes on
RunFetchFailsAndContinues ==
    /\ pc = "acquiring"
    /\ currentIteration' = i
    /\ \E error \in FetchErrors : runEvents' = Append(runEvents, <<"fetchFailed", error>>)
    /\ pc' = IF i < iterations - 1 THEN "waiting" ELSE "completed"
    /\ UNCHANGED <<iterations, feedFiles, startTime, now, i, lastCall, thrown, thrownError,
                   comparisons, report>>
    /\ UNCHANGED <<diffVars, downloadVars, retryVars, loggerVars, processorVars>>

\* run() whose catch wraps what it caught into a new error holding the iteration
RunFetchFailsWrapsError ==
    /\ pc = "acquiring"
    /\ currentIteration' = i
    /\ \E error \in FetchErrors :
          /\ runEvents' = Append(runEvents, <<"fetchFailed", error>>)
          /\ thrownError' = Obj(<< <<"name", Str("Error")>>,
                                   <<"message", Get(error, "message")>>,
                                   <<"context", Obj(<< <<"iteration", Num(i + 1)>> >>)>> >>)
    /\ pc' = "failed"
    /\ thrown' = TRUE
    /\ UNCHANGED <<iterations, feedFiles, startTime, now, i, lastCall, comparisons, report>>
    /\ UNCHANGED <<diffVars, downloadVars, retryVars, loggerVars, processorVars>>

\* run() that answers a rejected fetch by fetching the same iteration again
RunFetchFailsThenRetries ==
    /\ pc = "acquiring"
    /\ currentIteration' = i
    /\ \E error \in FetchErrors : thrownError' = error
    /\ UNCHANGED <<iterations, feedFiles, startTime, now, pc, i, lastCall, thrown, runEvents,
                   comparisons, report>>
    /\ UNCHANGED <<diffVars, downloadVars, retryVars, loggerVars, processorVars>>

\* loop body of run(): await this.fetchFeed() rejects; the catch of run() logs the
\* message and rethrows the error it caught
RunFetchFails ==
    /\ pc = "acquiring"
    /\ currentIteration' = i
    /\ \E error \in FetchErrors :
          /\ runEvents' = Append(runEvents, <<"fetchFailed", error>>)
          /\ thrownError' = error
    /\ pc' = "failed"
    /\ thrown' = TRUE
    /\ UNCHANGED <<iterations, feedFiles, startTime, now, i, lastCall, comparisons, report>>
    /\ UNCHANGED <<diffVars, downloadVars, retryVars, loggerVars, processorVars>>

\* await this.wait(this.interval) resolves, then i++ and the loop test i < this.iterations
RunWait ==
    /\ pc = "waiting"
    /\ now' = now + 1
    /\ i' = i + 1
    /\ runEvents' = Append(runEvents, <<"wait", i + 1>>)
    /\ pc' = IF i + 1 < iterations THEN "acquiring" ELSE "completed"
    /\ UNCHANGED <<iterations, currentIteration, feedFiles, startTime, lastCall, thrown,
                   thrownError, comparisons, report>>
    /\ UNCHANGED <<diffVars, downloadVars, retryVars, loggerVars, processorVars>>

\* after the loop: await this.generateComparisonReport()
RunReport ==
    /\ pc = "completed"
    /\ report' = << BuildReport(feedFiles, iterations, startTime, now) >>
    /\ runEvents' = Append(runEvents, <<"report", Len(feedFiles)>>)
    /\ pc' = "reported"
    /\ UNCHANGED <<iterations, currentIteration, feedFiles, startTime, now, i, lastCall,
                   thrown, thrownError, comparisons>>
    /\ UNCHANGED <<diffVars, downloadVars, retryVars, loggerVars, processorVars>>

\* compareFeeds() taking the previous snapshot off the store with shift() as it
\* compares each pair
CompareFeedsConsumesStore ==
    /\ Quiescent
    /\ comparisons' = compareFeeds(feedFiles)
    /\ feedFiles' = IF Len(feedFiles) <= 1 THEN feedFiles ELSE << feedFiles[Len(feedFiles)] >>
    /\ lastCall' = "compareFeeds"
    /\ thrown' = FALSE
    /\ thrownError' = Undefined
    /\ runEvents' = <<>>
    /\ report' = <<>>
    /\ UNCHANGED <<iterations, currentIteration, startTime, now, pc, i>>
    /\ UNCHANGED <<diffVars, downloadVars, retryVars, loggerVars, processorVars>>

\* a direct call of compareFeeds()
CompareFeeds ==
    /\ Quiescent
    /\ comparisons' = compareFeeds(feedFiles)
    /\ lastCall' = "compareFeeds"
    /\ thrown' = FALSE
    /\ thrownError' = Undefined
    /\ runEvents' = <<>>
    /\ report' = <<>>
    /\ UNCHANGED <<iterations, currentIteration, feedFiles, startTime, now, pc, i>>
    /\ UNCHANGED <<diffVars, downloadVars, retryVars, loggerVars, processorVars>>

\* a direct call of generateComparisonReport()
GenerateComparisonReport ==
    /\ Quiescent
    /\ report' = << BuildReport(feedFiles, iterations, startTime, now) >>
    /\ lastCall' = "generateComparisonReport"
    /\ thrown' = FALSE
    /\ thrownError' = Undefined
    /\ runEvents' = <<>>
    /\ comparisons' = <<>>
    /\ UNCHANGED <<iterations, currentIteration, feedFiles, startTime, now, pc, i>>
    /\ UNCHANGED <<diffVars, downloadVars, retryVars, loggerVars, processorVars>>

Next ==
    \/ FetchFeed
    \/ FetchFeedFails
    \/ Run
    \/ RunFetch
    \/ RunFetchFails
    \/ RunWait
    \/ RunReport
    \/ CompareFeeds
    \/ GenerateComparisonReport

Spec == Init /\ [][Next]_vars

\* Spec with the scheduling of run(): an awaited fetchFeed() settles (resolves or
\* rejects) and an awaited wait() resolves when its timer fires
FairSpec ==
    /\ Spec
    /\ WF_vars(RunFetch \/ RunFetchFails)
    /\ WF_vars(RunWait)

----------------------------------------------------------------------------
(* compareFeeds over two adjacent snapshots drawn from CompareFeedData *)

\* the monitor after two direct fetchFeed() calls on a fresh instance
InitCompare ==
    /\ iterations = 2
    /\ currentIteration = 0
    /\ \E previous \in CompareFeedData, current \in CompareFeedData :
          feedFiles = << [timestamp |-> 0, iteration |-> 1, data |-> previous],
                         [timestamp |-> 1, iteration |-> 1, data |-> current] >>
    /\ startTime = 0
    /\ now = 2
    /\ pc = "idle"
    /\ i = 0
    /\ lastCall = "fetchFeed"
    /\ thrown = FALSE
    /\ thrownError = Undefined
    /\ runEvents = <<>>
    /\ comparisons = <<>>
    /\ report = <<>>
    /\ obj1 = Obj(<<>>)
    /\ obj2 = Obj(<<>>)
    /\ differences = <<>>
    /\ DownloaderUnused
    /\ RetryUnused
    /\ LoggerUnused
    /\ ProcessorUnused

NextCompare == CompareFeeds

SpecCompare == InitCompare /\ [][NextCompare]_vars

----------------------------------------------------------------------------
(* getObjectDifferences over two documents drawn from DocSet *)

InitDiff ==
    /\ iterations = 1
    /\ currentIteration = 0
    /\ feedFiles = <<>>
    /\ startTime = 0
    /\ now = 0
    /\ pc = "idle"
    /\ i = 0
    /\ lastCall = "none"
    /\ thrown = FALSE
    /\ thrownError = Undefined
    /\ runEvents = <<>>
    /\ comparisons = <<>>
    /\ report = <<>>
    /\ obj1 \in DocSet
    /\ obj2 \in DocSet
    /\ differences = <<>>
    /\ DownloaderUnused
    /\ RetryUnused
    /\ LoggerUnused
    /\ ProcessorUnused

\* differences = getObjectDifferences(obj1, obj2)
GetObjectDifferences ==
    /\ differences' = getObjectDifferences(obj1, obj2)
    /\ lastCall' = "getObjectDifferences"
    /\ UNCHANGED <<obj1, obj2>>
    /\ UNCHANGED <<storeVars, downloadVars, retryVars, loggerVars, processorVars>>

NextDiff == GetObjectDifferences

SpecDiff == InitDiff /\ [][NextDiff]_vars

----------------------------------------------------------------------------
(* VideoDownloader: sanitizeFileName, downloadVideo, downloadAllFromFeed *)

MaxVideos == 2       \* longest list of videos handed to downloadAllFromFeed
MaxConcurrent == 2   \* largest maxConcurrent argument

\* default value of the maxAttempts parameter of retryableRequest
RetryableRequestMaxAttempts == 3

\* the argument of substring(0, 200)
MaxFileNameLength == 200

InvalidFileNameChars == {"<", ">", ":", "\"", "/", "\\", "|", "?", "*"}

WhiteSpaceChars == {" ", "\t", "\n", "\r"}

RECURSIVE RemoveInvalidChars(_)
\* .replace(/[<>:"/\\|?*]/g, '')
RemoveInvalidChars(s) ==
    IF s = "" THEN ""
    ELSE (IF Head(s) \in InvalidFileNameChars THEN "" ELSE Head(s))
         \o RemoveInvalidChars(Tail(s))

RECURSIVE SkipWhiteSpace(_)
SkipWhiteSpace(s) ==
    IF s # "" /\ Head(s) \in WhiteSpaceChars THEN SkipWhiteSpace(Tail(s)) ELSE s

RECURSIVE ReplaceWhiteSpaceRuns(_)
\* .replace(/\s+/g, '_')
ReplaceWhiteSpaceRuns(s) ==
    IF s = "" THEN ""
    ELSE IF Head(s) \in WhiteSpaceChars
         THEN "_" \o ReplaceWhiteSpaceRuns(SkipWhiteSpace(Tail(s)))
         ELSE Head(s) \o ReplaceWhiteSpaceRuns(Tail(s))

\* s.substring(0, n)
SubstringFromStart(s, n) == IF Len(s) <= n THEN s ELSE SubSeq(s, 1, n)

sanitizeFileName(fileName) ==
    SubstringFromStart(ReplaceWhiteSpaceRuns(RemoveInvalidChars(fileName)), MaxFileNameLength)

\* path.join(this.outputDir, 'videos', `${fileName}.mp4`), relative to outputDir
VideoPath(video) == "videos/" \o sanitizeFileName(video.title) \o ".mp4"

ThumbnailPath(video) == "videos/" \o sanitizeFileName(video.title) \o "_thumbnail.webp"

MetadataPath(video) == "metadata/" \o sanitizeFileName(video.title) \o "_metadata.json"

\* the videos a feed can hold: one with a thumbnail, one without
DownloadItems ==
    { [id |-> "gen_1", title |-> "cat video?", thumbnailUrl |-> Str("https://cdn/1.webp")],
      [id |-> "gen_2", title |-> "dog", thumbnailUrl |-> Undefined],
      [id |-> "gen_3", title |-> "cat_video", thumbnailUrl |-> Undefined] }

Paths ==
    UNION {{VideoPath(v), ThumbnailPath(v), MetadataPath(v)} : v \in DownloadItems}

AbsentFile == <<"absent", 0>>

\* a file left by an earlier process
OldFile == <<"old", 0>>

\* outputDir before the call: empty, or holding an earlier download of "cat video?"
InitialFileSystems ==
    { [p \in Paths |-> AbsentFile],
      [p \in Paths |-> IF p \in {"videos/cat_video.mp4", "videos/cat_video_thumbnail.webp",
                                 "metadata/cat_video_metadata.json"}
                       THEN OldFile ELSE AbsentFile] }

\* fs.existsSync(path)
existsSync(fs, path) == fs[path] # AbsentFile

\* fs.existsSync(videoPath) with the test of this.overwrite left out
SkipsDownloadWheneverFileExists(fs, video, ow) == existsSync(fs, VideoPath(video))

\* if (fs.existsSync(videoPath) && !this.overwrite) return videoPath;
SkipsDownload(fs, video, ow) == existsSync(fs, VideoPath(video)) /\ ~ow

\* a downloadVideo call: where it is, the loop variable of its retryableRequest
\* (0 outside the loop), whether it has issued a request, what existsSync
\* answered when it was called, and how many times batch.map has called it
Pending == [st |-> "pending", attempt |-> 0, requested |-> FALSE, existed |-> FALSE, calls |-> 0]

\* a + b on JavaScript numbers
JsAdd(a, b) == IF a = NaN \/ b = NaN THEN NaN ELSE Num(a[2] + b[2])

\* a < n on JavaScript numbers, n an integer: false when a is NaN
JsLess(a, n) == a # NaN /\ a[2] < n

\* videos.slice(i, i + maxConcurrent), as positions of the list: an end that is
\* NaN is taken as 0
Batch(start) ==
    LET end == JsAdd(start, maxConcurrent)
    IN IF start = NaN \/ end = NaN THEN {}
       ELSE {k \in 1..Len(videos) : start[2] < k /\ k <= end[2]}

Settled(k) == downloads[k].st \in {"resolved", "rejected"}

\* downloadAllFromFeed(videos, maxConcurrent) has been called on a fresh downloader
InitDownload ==
    /\ MonitorUnused
    /\ RetryUnused
    /\ LoggerUnused
    /\ ProcessorUnused
    /\ videos \in SeqsUpTo(DownloadItems, MaxVideos)
    /\ maxConcurrent \in {Num(n) : n \in 0..MaxConcurrent} \cup {NaN}
    /\ overwrite \in BOOLEAN
    /\ fileSystem \in InitialFileSystems
    /\ batchStart = Num(0)
    /\ downloadPc = "loop"
    /\ downloads = [k \in 1..Len(videos) |-> Pending]
    /\ results = <<>>

\* the call downloadVideo(video) up to its first await: returns the path of an
\* existing file, or issues the request
Called(k) ==
    IF SkipsDownload(fileSystem, videos[k], overwrite)
    THEN [st |-> "resolved", attempt |-> 0, requested |-> FALSE, existed |-> TRUE,
          calls |-> downloads[k].calls + 1]
    ELSE [st |-> "requesting", attempt |-> 1, requested |-> TRUE,
          existed |-> existsSync(fileSystem, VideoPath(videos[k])),
          calls |-> downloads[k].calls + 1]

\* loop test passes: batch = videos.slice(i, i + maxConcurrent); batch.map(..) calls
\* downloadVideo for every video of the batch
StartBatch ==
    /\ downloadPc = "loop"
    /\ JsLess(batchStart, Len(videos))
    /\ downloads' = [k \in 1..Len(videos) |->
                        IF k \in Batch(batchStart) THEN Called(k) ELSE downloads[k]]
    /\ downloadPc' = "awaiting"
    /\ UNCHANGED <<videos, maxConcurrent, overwrite, fileSystem, batchStart, results>>
    /\ UNCHANGED <<storeVars, lastCall, diffVars, retryVars, loggerVars, processorVars>>

\* the response of the request arrives: fs.createWriteStream(videoPath), pipe
ResponseArrives(k) ==
    /\ downloads[k].st = "requesting"
    /\ fileSystem' = [fileSystem EXCEPT ![VideoPath(videos[k])] = <<"partial", k>>]
    /\ downloads' = [downloads EXCEPT ![k].st = "writing"]
    /\ UNCHANGED <<videos, maxConcurrent, overwrite, batchStart, downloadPc, results>>
    /\ UNCHANGED <<storeVars, lastCall, diffVars, retryVars, loggerVars, processorVars>>

\* the request or the stream fails: retryableRequest calls requestFn again when the
\* error is retriable and attempts are left, else downloadVideo rejects
RequestFails(k) ==
    /\ downloads[k].st \in {"requesting", "writing"}
    /\ \E isRetriable \in BOOLEAN :
          downloads' =
             IF downloads[k].attempt < RetryableRequestMaxAttempts /\ isRetriable
             THEN [downloads EXCEPT ![k].st = "requesting",
                                    ![k].attempt = downloads[k].attempt + 1]
             ELSE [downloads EXCEPT ![k].st = "rejected", ![k].attempt = 0]
    /\ UNCHANGED <<videos, maxConcurrent, overwrite, fileSystem, batchStart, downloadPc,
                   results>>
    /\ UNCHANGED <<storeVars, lastCall, diffVars, retryVars, loggerVars, processorVars>>

\* writer 'finish': the video file is complete; the thumbnail is fetched when the
\* video has one (a failure is swallowed), the metadata file is written and
\* downloadVideo resolves with videoPath
StreamFinishes(k) ==
    /\ downloads[k].st = "writing"
    /\ \E thumbnailSaved \in
             (IF videos[k].thumbnailUrl # Undefined THEN BOOLEAN ELSE {FALSE}) :
          fileSystem' =
             [p \in Paths |->
                 IF p = VideoPath(videos[k]) \/ p = MetadataPath(videos[k])
                    \/ (thumbnailSaved /\ p = ThumbnailPath(videos[k]))
                 THEN <<"complete", k>>
                 ELSE fileSystem[p]]
    /\ downloads' = [downloads EXCEPT ![k].st = "resolved", ![k].attempt = 0]
    /\ UNCHANGED <<videos, maxConcurrent, overwrite, batchStart, downloadPc, results>>
    /\ UNCHANGED <<storeVars, lastCall, diffVars, retryVars, loggerVars, processorVars>>

\* the paths of the resolved downloads of the batch, in list order
BatchPaths(start) ==
    FilterSeq([k \in 1..Len(videos) |-> VideoPath(videos[k])],
              [k \in 1..Len(videos) |-> k \in Batch(start) /\ downloads[k].st = "resolved"], 1)

\* the loop goes on to the next batch without awaiting Promise.all(batchPromises)
BatchNotAwaited ==
    /\ downloadPc = "awaiting"
    /\ results' = results \o BatchPaths(batchStart)
    /\ batchStart' = JsAdd(batchStart, maxConcurrent)
    /\ downloadPc' = "loop"
    /\ UNCHANGED <<videos, maxConcurrent, overwrite, fileSystem, downloads>>
    /\ UNCHANGED <<storeVars, lastCall, diffVars, retryVars, loggerVars, processorVars>>

\* await Promise.all(batchPromises) resolves: every download of the batch has
\* settled; the non-null results are pushed and i += maxConcurrent
BatchSettled ==
    /\ downloadPc = "awaiting"
    /\ \A k \in Batch(batchStart) : Settled(k)
    /\ results' = results \o BatchPaths(batchStart)
    /\ batchStart' = JsAdd(batchStart, maxConcurrent)
    /\ downloadPc' = "loop"
    /\ UNCHANGED <<videos, maxConcurrent, overwrite, fileSystem, downloads>>
    /\ UNCHANGED <<storeVars, lastCall, diffVars, retryVars, loggerVars, processorVars>>

\* loop test fails: return results
ReturnResults ==
    /\ downloadPc = "loop"
    /\ ~JsLess(batchStart, Len(videos))
    /\ downloadPc' = "returned"
    /\ UNCHANGED <<videos, maxConcurrent, overwrite, fileSystem, batchStart, downloads,
                   results>>
    /\ UNCHANGED <<storeVars, lastCall, diffVars, retryVars, loggerVars, processorVars>>

NextDownload ==
    \/ StartBatch
    \/ \E k \in 1..Len(videos) : ResponseArrives(k)
    \/ \E k \in 1..Len(videos) : RequestFails(k)
    \/ \E k \in 1..Len(videos) : StreamFinishes(k)
    \/ BatchSettled
    \/ ReturnResults

SpecDownload == InitDownload /\ [][NextDownload]_vars

----------------------------------------------------------------------------
(* The retry wrappers: RetryManager.execute, SoraAPI.getRawFeed,                *)
(* VideoDownloader.retryableRequest                                            *)

MaxAttemptsOption == 3   \* largest maxAttempts a caller passes

\* const maxAttempts = 3 of getRawFeed
GetRawFeedMaxAttempts == 3

\* APP_CONFIG.RETRY_BASE_DELAY_MS, and baseDelayMs of getRawFeed and retryableRequest
BaseDelayMs == 500

\* backoffMultiplier, and the base of Math.pow(2, attempt - 1)
BackoffMultiplier == 2

\* maxDelayMs of RetryManager.defaultOptions
MaxDelayMs == 30000

\* one character of String.prototype.toLowerCase
LowerChar(c) ==
    CASE c = "A" -> "a"
      [] c = "B" -> "b"
      [] c = "C" -> "c"
      [] c = "D" -> "d"
      [] c = "E" -> "e"
      [] c = "F" -> "f"
      [] c = "G" -> "g"
      [] c = "H" -> "h"
      [] c = "I" -> "i"
      [] c = "J" -> "j"
      [] c = "K" -> "k"
      [] c = "L" -> "l"
      [] c = "M" -> "m"
      [] c = "N" -> "n"
      [] c = "O" -> "o"
      [] c = "P" -> "p"
      [] c = "Q" -> "q"
      [] c = "R" -> "r"
      [] c = "S" -> "s"
      [] c = "T" -> "t"
      [] c = "U" -> "u"
      [] c = "V" -> "v"
      [] c = "W" -> "w"
      [] c = "X" -> "x"
      [] c = "Y" -> "y"
      [] c = "Z" -> "z"
      [] OTHER -> c

RECURSIVE toLowerCase(_)
toLowerCase(s) == IF s = "" THEN "" ELSE LowerChar(Head(s)) \o toLowerCase(Tail(s))

\* s.includes(sub)
Includes(s, sub) ==
    \E from \in 1..(Len(s) - Len(sub) + 1) : SubSeq(s, from, from + Len(sub) - 1) = sub

\* what the operation can reject with: name of the class (or typeof for a thrown
\* string), code and message
RetryErrors ==
    { [name |-> "AxiosError", code |-> Str("ECONNRESET"), message |-> "read ECONNRESET"],
      [name |-> "AxiosError", code |-> Str("ECONNABORTED"),
       message |-> "timeout of 15000ms exceeded"],
      [name |-> "AxiosError", code |-> Str("ERR_BAD_REQUEST"),
       message |-> "Request failed with status code 404"],
      [name |-> "Error", code |-> Str("ECONNRESET"), message |-> "socket hang up"],
      [name |-> "NetworkError", code |-> Str("NETWORK_ERROR"), message |-> "offline"],
      [name |-> "string", code |-> Undefined, message |-> "boom"] }

\* axios.isAxiosError(error)
isAxiosError(error) == error.name = "AxiosError"

\* error instanceof AppError
InstanceOfAppError(error) == error.name \in {"AppError", "NetworkError"}

\* error instanceof Error
InstanceOfError(error) == error.name \in {"Error", "AxiosError", "AppError", "NetworkError"}

\* isRetriableError(error), used by RetryManager.execute
isRetriableError(error) ==
    IF error.name = "NetworkError" THEN TRUE
    ELSE IF InstanceOfError(error)
    THEN LET message == toLowerCase(error.message)
         IN \/ Includes(message, "econnreset")
            \/ Includes(message, "socket hang up")
            \/ Includes(message, "etimedout")
            \/ Includes(message, "enetunreach")
            \/ Includes(message, "eai_again")
            \/ Includes(message, "timeout")
    ELSE FALSE

\* const retriable = isAxios && (message.includes(..) || ..) of getRawFeed
GetRawFeedRetriable(error) ==
    /\ isAxiosError(error)
    /\ \/ Includes(error.message, "ECONNRESET")
       \/ Includes(error.message, "socket hang up")
       \/ Includes(error.message, "ETIMEDOUT")
       \/ Includes(error.message, "ENETUNREACH")
       \/ Includes(error.message, "EAI_AGAIN")

\* const isRetriable = error.code === .. || error.message?.includes('socket hang up')
\* of retryableRequest
RetryableRequestRetriable(error) ==
    \/ error.code \in {Str("ECONNRESET"), Str("ETIMEDOUT"), Str("ENETUNREACH"),
                       Str("EAI_AGAIN")}
    \/ (InstanceOfError(error) /\ Includes(error.message, "socket hang up"))

Retriable(w, error) ==
    CASE w = "RetryManager.execute" -> isRetriableError(error)
      [] w = "SoraAPI.getRawFeed" -> GetRawFeedRetriable(error)
      [] OTHER -> RetryableRequestRetriable(error)

\* handleError(error): rethrows an AppError, wraps anything else into a new AppError
handleError(error) ==
    IF InstanceOfAppError(error) THEN error
    ELSE IF InstanceOfError(error)
    THEN [name |-> "AppError", code |-> Str("UNEXPECTED_ERROR"), message |-> error.message]
    ELSE [name |-> "AppError", code |-> Str("UNKNOWN_ERROR"), message |-> error.message]

\* what the wrapper throws when it gives up on error
Thrown(w, error) ==
    CASE w = "RetryManager.execute" -> handleError(error)
      [] w = "SoraAPI.getRawFeed" ->
            IF isAxiosError(error)
            THEN [name |-> "Error", code |-> Undefined,
                  message |-> "API request failed: " \o error.message]
            ELSE error
      [] OTHER -> error

\* throw new Error('Max retry attempts reached') after the loop
MaxRetryError ==
    [name |-> "Error", code |-> Undefined, message |-> "Max retry attempts reached"]

RECURSIVE Pow(_, _)
Pow(b, e) == IF e = 0 THEN 1 ELSE b * Pow(b, e - 1)

\* the delay slept after the failed attempt number n
Delay(w, n) ==
    LET backoff == BaseDelayMs * Pow(BackoffMultiplier, n - 1)
    IN IF w = "RetryManager.execute" /\ backoff > MaxDelayMs THEN MaxDelayMs ELSE backoff

\* what the n-th invocation of the operation resolves with
ResultOf(n) == Str("response " \o ToString(n))

RetryWrappers == {"RetryManager.execute", "SoraAPI.getRawFeed", "VideoDownloader.retryableRequest"}

\* a wrapper has been called: attempt = 1 and the loop test attempt <= maxAttempts
InitRetry ==
    /\ MonitorUnused
    /\ DownloaderUnused
    /\ LoggerUnused
    /\ ProcessorUnused
    /\ wrapper \in RetryWrappers
    /\ maxAttempts \in (IF wrapper = "SoraAPI.getRawFeed" THEN {GetRawFeedMaxAttempts}
                        ELSE 0..MaxAttemptsOption)
    /\ attempt = 1
    /\ outcomes = <<>>
    /\ delays = <<>>
    /\ retryPc = (IF 1 <= maxAttempts THEN "calling" ELSE "threw")
    /\ retryResult = (IF 1 <= maxAttempts THEN Undefined ELSE MaxRetryError)

\* the awaited operation resolves, the loop goes on all the same
OperationResolvesLoopGoesOn ==
    /\ retryPc = "calling"
    /\ outcomes' = Append(outcomes, <<"resolved", ResultOf(Len(outcomes) + 1)>>)
    /\ attempt' = attempt + 1
    /\ retryPc' = (IF attempt + 1 <= maxAttempts THEN "calling" ELSE "returned")
    /\ retryResult' = ResultOf(Len(outcomes) + 1)
    /\ UNCHANGED <<wrapper, maxAttempts, delays>>
    /\ UNCHANGED <<storeVars, lastCall, diffVars, downloadVars, loggerVars, processorVars>>

\* the awaited operation resolves: return result
OperationResolves ==
    /\ retryPc = "calling"
    /\ outcomes' = Append(outcomes, <<"resolved", ResultOf(Len(outcomes) + 1)>>)
    /\ retryPc' = "returned"
    /\ retryResult' = ResultOf(Len(outcomes) + 1)
    /\ UNCHANGED <<wrapper, maxAttempts, attempt, delays>>
    /\ UNCHANGED <<storeVars, lastCall, diffVars, downloadVars, loggerVars, processorVars>>

\* the catch without the isRetriable test: sleep and go on whenever attempts are left
OperationRejectsRetriesAnyError ==
    /\ retryPc = "calling"
    /\ \E error \in RetryErrors :
          /\ outcomes' = Append(outcomes, <<"rejected", error>>)
          /\ IF attempt < maxAttempts
             THEN /\ delays' = Append(delays, Delay(wrapper, attempt))
                  /\ retryPc' = "delaying"
                  /\ retryResult' = retryResult
             ELSE /\ delays' = delays
                  /\ retryPc' = "threw"
                  /\ retryResult' = Thrown(wrapper, error)
    /\ UNCHANGED <<wrapper, maxAttempts, attempt>>
    /\ UNCHANGED <<storeVars, lastCall, diffVars, downloadVars, loggerVars, processorVars>>

\* the awaited operation rejects: sleep and go on when attempts are left and the
\* error is retriable, else throw
OperationRejects ==
    /\ retryPc = "calling"
    /\ \E error \in RetryErrors :
          /\ outcomes' = Append(outcomes, <<"rejected", error>>)
          /\ IF attempt < maxAttempts /\ Retriable(wrapper, error)
             THEN /\ delays' = Append(delays, Delay(wrapper, attempt))
                  /\ retryPc' = "delaying"
                  /\ retryResult' = retryResult
             ELSE /\ delays' = delays
                  /\ retryPc' = "threw"
                  /\ retryResult' = Thrown(wrapper, error)
    /\ UNCHANGED <<wrapper, maxAttempts, attempt>>
    /\ UNCHANGED <<storeVars, lastCall, diffVars, downloadVars, loggerVars, processorVars>>

\* the timer of the delay fires: continue, attempt++ and the loop test
DelayElapses ==
    /\ retryPc = "delaying"
    /\ attempt' = attempt + 1
    /\ retryPc' = (IF attempt + 1 <= maxAttempts THEN "calling" ELSE "threw")
    /\ retryResult' = (IF attempt + 1 <= maxAttempts THEN retryResult ELSE MaxRetryError)
    /\ UNCHANGED <<wrapper, maxAttempts, outcomes, delays>>
    /\ UNCHANGED <<storeVars, lastCall, diffVars, downloadVars, loggerVars, processorVars>>

NextRetry ==
    \/ OperationResolves
    \/ OperationRejects
    \/ DelayElapses

SpecRetry == InitRetry /\ [][NextRetry]_vars

\* SpecRetry with the scheduling of the wrappers: the awaited operation settles
\* and the timer of a delay fires
FairSpecRetry ==
    /\ SpecRetry
    /\ WF_vars(OperationResolves \/ OperationRejects)
    /\ WF_vars(DelayElapses)

----------------------------------------------------------------------------
(* SoraAPI's logging interceptors and Logger.logRequest / logResponse *)

MaxLogEntries == 2   \* largest number of entries the log holds

\* API_CONFIG.HEADERS
HEADERS ==
    << <<"accept", Str("*/*")>>,
       <<"accept-language", Str("en-US,en;q=0.9,zh-CN;q=0.8,zh;q=0.7,ja;q=0.6")>>,
       <<"cache-control", Str("no-cache")>>,
       <<"pragma", Str("no-cache")>>,
       <<"priority", Str("u=1, i")>>,
       <<"referer", Str("https://sora.chatgpt.com/")>>,
       <<"sec-ch-ua",
         Str("\"Chromium\";v=\"140\", \"Not=A?Brand\";v=\"24\", \"Google Chrome\";v=\"140\"")>>,
       <<"sec-ch-ua-mobile", Str("?0")>>,
       <<"sec-ch-ua-platform", Str("\"macOS\"")>>,
       <<"sec-fetch-dest", Str("empty")>>,
       <<"sec-fetch-mode", Str("cors")>>,
       <<"sec-fetch-site", Str("same-origin")>>,
       <<"user-agent",
         Str("Mozilla/5.0 (Macintosh; Intel Mac OS X 10_15_7) AppleWebKit/537.36 (KHTML, like Gecko) Chrome/140.0.0.0 Safari/537.36")>> >>

\* the cookies arguments a caller constructs SoraAPI with
CookieArguments ==
    {Undefined, Str(""), Str("session=alpha"), Str("session=beta")}

\* the headers a response carries (error.response?.headers is undefined when
\* no response arrived; set-cookie is an array of strings)
ResponseHeaders ==
    { Undefined,
      Obj(<< <<"content-type", Str("application/json")>> >>),
      Obj(<< <<"content-type", Str("application/json")>>,
             <<"set-cookie", Arr(<<Str("__cf_bm=1; path=/")>>)>> >>) }

\* the headers option of axios.create:
\* {...API_CONFIG.HEADERS, ...(cookies && {'Cookie': cookies})}
ClientHeaders(cookiesArgument) ==
    Obj(HEADERS \o (IF cookiesArgument[1] = "string" /\ cookiesArgument[2] # ""
                    THEN << <<"Cookie", cookiesArgument>> >>
                    ELSE <<>>))

\* Logger.sanitizeHeaders: copies the string-valued entries and deletes the
\* keys 'authorization', 'cookie' and 'x-api-key'
sanitizeHeaders(headers) ==
    IF headers[1] = "undefined"
    THEN Obj(<<>>)
    ELSE Obj(SelectSeq(headers[2],
                       LAMBDA entry : /\ entry[2][1] = "string"
                                      /\ entry[1] \notin {"authorization", "cookie", "x-api-key"}))

\* Logger.shouldLog
shouldLog(level) == level <= logLevel

\* Logger.debug: the entry goes to the console and to the log file when the
\* level allows it
debug(message, context) ==
    IF shouldLog(LogLevelDEBUG)
    THEN logEntries' = Append(logEntries, [message |-> message, context |-> context])
    ELSE UNCHANGED logEntries

InitLog ==
    /\ MonitorUnused
    /\ DownloaderUnused
    /\ RetryUnused
    /\ ProcessorUnused
    /\ cookies \in CookieArguments
    /\ logLevel = LogLevelINFO
    /\ logEntries = <<>>

\* Logger.setLogLevel
SetLogLevel ==
    /\ \E level \in 0..LogLevelTRACE : logLevel' = level
    /\ UNCHANGED <<cookies, logEntries>>
    /\ UNCHANGED <<storeVars, lastCall, diffVars, downloadVars, retryVars, processorVars>>

\* the request interceptor: log.logRequest(method, url, config.headers, config.data)
LogRequest ==
    /\ Len(logEntries) < MaxLogEntries
    /\ debug("HTTP Request: GET /feed",
             [method |-> "GET", url |-> "/feed", status |-> Undefined,
              headers |-> sanitizeHeaders(ClientHeaders(cookies))])
    /\ UNCHANGED <<cookies, logLevel>>
    /\ UNCHANGED <<storeVars, lastCall, diffVars, downloadVars, retryVars, processorVars>>

\* the response interceptors: log.logResponse(method, url, status, headers, size)
LogResponse ==
    /\ Len(logEntries) < MaxLogEntries
    /\ \E headers \in ResponseHeaders :
         LET status == IF headers[1] = "undefined" THEN 0 ELSE 200
         IN  debug("HTTP Response: GET /feed - " \o (IF status = 0 THEN "0" ELSE "200"),
                   [method |-> "GET", url |-> "/feed", status |-> Num(status),
                    headers |-> sanitizeHeaders(headers)])
    /\ UNCHANGED <<cookies, logLevel>>
    /\ UNCHANGED <<storeVars, lastCall, diffVars, downloadVars, retryVars, processorVars>>

NextLog ==
    \/ SetLogLevel
    \/ LogRequest
    \/ LogResponse

SpecLog == InitLog /\ [][NextLog]_vars

----------------------------------------------------------------------------
(* LocalFeedProcessor.escapeControlCharsInsideStrings *)

MaxInputLength == 4   \* longest input string

\* the characters the inputs are made of: a letter, the quote, the backslash
\* and the control characters tab, line feed and form feed
InputChars == {"a", "\"", "\\", "\t", "\n", "\f"}

RECURSIVE StringsOfLength(_)
StringsOfLength(n) ==
    IF n = 0 THEN {""}
    ELSE {s \o ch : s \in StringsOfLength(n - 1), ch \in InputChars}

InputStrings == UNION {StringsOfLength(n) : n \in 0..MaxInputLength}

\* ch.charCodeAt(0), for the characters of the inputs and of the escapes
charCodeAt(ch) ==
    CASE ch = "\t" -> 9
      [] ch = "\n" -> 10
      [] ch = "\f" -> 12
      [] ch = "\r" -> 13
      [] ch = "\"" -> 34
      [] ch = "\\" -> 92
      [] ch = "0" -> 48
      [] ch = "a" -> 97
      [] ch = "c" -> 99
      [] ch = "n" -> 110
      [] ch = "r" -> 114
      [] ch = "t" -> 116
      [] ch = "u" -> 117

\* code.toString(16)
RECURSIVE toString16(_)
toString16(code) ==
    LET digit == SubSeq("0123456789abcdef", (code % 16) + 1, (code % 16) + 1)
    IN  IF code < 16 THEN digit ELSE toString16(code \div 16) \o digit

\* s.padStart(targetLength, '0')
RECURSIVE padStart(_, _)
padStart(s, targetLength) ==
    IF Len(s) >= targetLength THEN s ELSE padStart("0" \o s, targetLength)

\* what the loop appends for a character that is inside a string and is not
\* a backslash, a quote or the character after a backslash
EscapedChar(ch) ==
    IF charCodeAt(ch) < 32
    THEN CASE ch = "\n" -> "\\n"
           [] ch = "\r" -> "\\r"
           [] ch = "\t" -> "\\t"
           [] OTHER -> "\\u" \o padStart(toString16(charCodeAt(ch)), 4)
    ELSE ch

\* the loop of escapeControlCharsInsideStrings from the state (inString, escape)
RECURSIVE escapeLoop(_, _, _)
escapeLoop(input, inString, escape) ==
    IF input = "" THEN ""
    ELSE LET ch == Head(input)
             rest == Tail(input)
         IN  IF ~inString
             THEN ch \o escapeLoop(rest, ch = "\"", escape)
             ELSE IF escape
             THEN ch \o escapeLoop(rest, TRUE, FALSE)
             ELSE IF ch = "\\"
             THEN ch \o escapeLoop(rest, TRUE, TRUE)
             ELSE IF ch = "\""
             THEN ch \o escapeLoop(rest, FALSE, FALSE)
             ELSE EscapedChar(ch) \o escapeLoop(rest, TRUE, FALSE)

escapeControlCharsInsideStrings(input) == escapeLoop(input, FALSE, FALSE)

InitEscape ==
    /\ MonitorUnused
    /\ DownloaderUnused
    /\ RetryUnused
    /\ LoggerUnused
    /\ content \in InputStrings
    /\ sanitized = ""
    /\ sanitizedAgain = ""
    /\ escapePc = "called"

\* escapeControlCharsInsideStrings(content)
EscapeControlChars ==
    /\ escapePc = "called"
    /\ sanitized' = escapeControlCharsInsideStrings(content)
    /\ escapePc' = "escaped"
    /\ UNCHANGED <<content, sanitizedAgain>>
    /\ UNCHANGED <<storeVars, lastCall, diffVars, downloadVars, retryVars, loggerVars>>

\* the function applied to its own result
EscapeControlCharsAgain ==
    /\ escapePc = "escaped"
    /\ sanitizedAgain' = escapeControlCharsInsideStrings(sanitized)
    /\ escapePc' = "escapedAgain"
    /\ UNCHANGED <<content, sanitized>>
    /\ UNCHANGED <<storeVars, lastCall, diffVars, downloadVars, retryVars, loggerVars>>

NextEscape ==
    \/ EscapeControlChars
    \/ EscapeControlCharsAgain

SpecEscape == InitEscape /\ [][NextEscape]_vars

----------------------------------------------------------------------------
(* Properties of compareFeeds *)

\* deep, value-based equality of two JSON values: mappings by key/value pairs
\* whatever the key order, arrays by length and pairwise-equal elements
RECURSIVE DeepEqual(_, _)
DeepEqual(a, b) ==
    /\ a[1] = b[1]
    /\ CASE a[1] = "object" ->
               /\ {a[2][k][1] : k \in 1..Len(a[2])} = {b[2][k][1] : k \in 1..Len(b[2])}
               /\ \A k \in 1..Len(a[2]) : DeepEqual(a[2][k][2], Get(b, a[2][k][1]))
         [] a[1] = "array" ->
               /\ Len(a[2]) = Len(b[2])
               /\ \A k \in 1..Len(a[2]) : DeepEqual(a[2][k], b[2][k])
         [] OTHER -> a = b

\* item ids unique within the item list
UniqueIds(items) == \A m, n \in 1..Len(items) : PostId(items[m]) = PostId(items[n]) => m = n

\* the items of the k-th and (k+1)-th snapshot of the store
PreviousItemsAt(k) == ItemsOrEmpty(feedFiles[k].data)
CurrentItemsAt(k) == ItemsOrEmpty(feedFiles[k + 1].data)

IdsOf(entries) == [k \in 1..Len(entries) |-> entries[k].id]

\* compareFeeds() has just returned `comparisons` for the current store
Compared == lastCall = "compareFeeds" /\ Len(comparisons) = Len(feedFiles) - 1

\* C1: in every comparison that compareFeeds produces, no item id appears in
\* both newItems and removedItems.
NewAndRemovedDisjoint ==
    lastCall = "compareFeeds" =>
        \A k \in 1..Len(comparisons) :
            {comparisons[k].changes.newItems[m].id :
                    m \in 1..Len(comparisons[k].changes.newItems)}
            \cap {comparisons[k].changes.removedItems[m].id :
                    m \in 1..Len(comparisons[k].changes.removedItems)} = {}

\* C1 witness: a comparison that lists both a new and a removed item
NewAndRemovedDisjointWitness ==
    /\ Compared
    /\ \E k \in 1..Len(comparisons) :
          /\ comparisons[k].changes.newItems # <<>>
          /\ comparisons[k].changes.removedItems # <<>>

\* C2: when item ids are unique within each of the two snapshots,
\* totalItems.current - totalItems.previous = totalItems.difference
\* = len(newItems) - len(removedItems).
CountDifferenceIsNewMinusRemoved ==
    Compared =>
        \A k \in 1..Len(comparisons) :
            (UniqueIds(PreviousItemsAt(k)) /\ UniqueIds(CurrentItemsAt(k))) =>
                LET c == comparisons[k].changes
                IN /\ c.totalItems.previous = Len(PreviousItemsAt(k))
                   /\ c.totalItems.current = Len(CurrentItemsAt(k))
                   /\ c.totalItems.difference = c.totalItems.current - c.totalItems.previous
                   /\ c.totalItems.difference = Len(c.newItems) - Len(c.removedItems)

\* C2 witness: unique ids, one common item, and a count that changed
CountDifferenceWitness ==
    /\ Compared
    /\ \E k \in 1..Len(comparisons) :
          /\ UniqueIds(PreviousItemsAt(k)) /\ UniqueIds(CurrentItemsAt(k))
          /\ comparisons[k].changes.totalItems.difference # 0
          /\ comparisons[k].changes.newItems # <<>>
          /\ IdSet(PreviousItemsAt(k)) \cap IdSet(CurrentItemsAt(k)) # {}

\* the ids of the items of `items`, in order, whose id is not in `others`
IdsAbsentFrom(items, others) ==
    LET Absent(item) == PostId(item) \notin IdSet(others)
        kept == SelectSeq(items, Absent)
    IN [k \in 1..Len(kept) |-> PostId(kept[k])]

\* the item of prev with the id of item (ids unique)
Matching(prev, item) == prev[CHOOSE n \in 1..Len(prev) : PostId(prev[n]) = PostId(item)]

\* the {id, changes} entries of the items of cur, in order, whose id is in
\* prev and whose matched previous item is not deep-equal to them
DeepModified(prev, cur) ==
    LET Changed(item) == /\ PostId(item) \in IdSet(prev)
                         /\ ~DeepEqual(Matching(prev, item), item)
        kept == SelectSeq(cur, Changed)
    IN [k \in 1..Len(kept) |->
           [id |-> PostId(kept[k]),
            changes |-> getObjectDifferences(Matching(prev, kept[k]), kept[k])]]

\* C3: newItems is exactly the current items whose id is absent from the
\* previous snapshot (current's order), removedItems exactly the previous
\* items whose id is absent from the current one (previous' order), and
\* modifiedItems exactly the common ids whose two items are not deep-equal
\* (current's order), each with diffFields(previousItem, currentItem).
ClassificationIsExact ==
    Compared =>
        \A k \in 1..Len(comparisons) :
            (UniqueIds(PreviousItemsAt(k)) /\ UniqueIds(CurrentItemsAt(k))) =>
                LET c == comparisons[k].changes
                IN /\ IdsOf(c.newItems) = IdsAbsentFrom(CurrentItemsAt(k), PreviousItemsAt(k))
                   /\ IdsOf(c.removedItems) = IdsAbsentFrom(PreviousItemsAt(k), CurrentItemsAt(k))
                   /\ c.modifiedItems = DeepModified(PreviousItemsAt(k), CurrentItemsAt(k))

\* cur is prev with keys removed, at the top level or inside nested mappings,
\* and nothing else changed
RECURSIVE KeysRemovedOnly(_, _)
KeysRemovedOnly(prev, cur) ==
    /\ prev[1] = "object" /\ cur[1] = "object"
    /\ prev # cur
    /\ \A k \in 1..Len(cur[2]) :
          /\ HasKey(prev, cur[2][k][1])
          /\ \/ Get(prev, cur[2][k][1]) = cur[2][k][2]
             \/ KeysRemovedOnly(Get(prev, cur[2][k][1]), cur[2][k][2])
    /\ LET Kept(pair) == HasKey(cur, pair[1])
           kept == SelectSeq(prev[2], Kept)
       IN [k \in 1..Len(kept) |-> kept[k][1]] = [k \in 1..Len(cur[2]) |-> cur[2][k][1]]

\* C5: when the current item is the previous item of the same id with a key
\* removed from a nested mapping, getObjectDifferences yields no record and
\* compareFeeds still lists the item under modifiedItems, with changes = [].
NestedDeletionIsModifiedWithoutChanges ==
    Compared =>
        \A k \in 1..Len(comparisons) :
            \A m \in 1..Len(CurrentItemsAt(k)) :
                LET item == CurrentItemsAt(k)[m]
                    before == FindPrevious(feedFiles[k].data, item)
                IN (before # Undefined /\ KeysRemovedOnly(before, item)) =>
                       \E n \in 1..Len(comparisons[k].changes.modifiedItems) :
                           comparisons[k].changes.modifiedItems[n] =
                               [id |-> PostId(item), changes |-> <<>>]

\* C5 witness: { meta: { a: 1, b: 2 } } became { meta: { a: 1 } } in a compared pair
NestedDeletionWitness ==
    /\ Compared
    /\ \E k \in 1..Len(comparisons) :
          /\ MetaItem("a", << <<"a", Num(1)>>, <<"b", Num(2)>> >>)
                 \in {PreviousItemsAt(k)[m] : m \in 1..Len(PreviousItemsAt(k))}
          /\ CurrentItemsAt(k) = << MetaItem("a", << <<"a", Num(1)>> >>) >>
          /\ comparisons[k].changes.modifiedItems = << [id |-> Str("a"), changes |-> <<>>] >>

\* C7: two items with the same id that hold the same key/value pairs, in
\* whatever key order, are equal: the id is not listed in modifiedItems.
DeepEqualItemsAreNotModified ==
    Compared =>
        \A k \in 1..Len(comparisons) :
            \A m \in 1..Len(CurrentItemsAt(k)) :
                LET item == CurrentItemsAt(k)[m]
                    before == FindPrevious(feedFiles[k].data, item)
                IN (before # Undefined /\ DeepEqual(before, item)) =>
                       \A n \in 1..Len(comparisons[k].changes.modifiedItems) :
                           comparisons[k].changes.modifiedItems[n].id # PostId(item)

----------------------------------------------------------------------------
(* Properties of getObjectDifferences *)

\* getObjectDifferences(obj1, obj2) has returned `differences`
Diffed == lastCall = "getObjectDifferences"

\* the records of diffs, in order, whose path is prefix or lies below it
RecordsUnder(diffs, prefix) ==
    LET Below(rec) ==
            \/ rec.path = prefix
            \/ /\ Len(rec.path) > Len(prefix)
               /\ SubSeq(rec.path, 1, Len(prefix) + 1) = prefix \o "."
    IN SelectSeq(diffs, Below)

ChangedArrayIsOneModifiedRecord ==
    (Diffed /\ obj1[1] = "object" /\ obj2[1] = "object") =>
        \A k \in 1..Len(obj2[2]) :
            LET key == obj2[2][k][1]
                v1 == Get(obj1, key)
                v2 == obj2[2][k][2]
            IN (HasKey(obj1, key) /\ (v1[1] = "array" \/ v2[1] = "array")
                    /\ ~DeepEqual(v1, v2)) =>
                   RecordsUnder(differences, key) =
                       << [path |-> key, type |-> "modified",
                           oldValue |-> v1, newValue |-> v2] >>

RECURSIVE IndexRecords(_, _, _, _)
\* the per-index records for two arrays of scalars, from index idx on
IndexRecords(key, before, after, idx) ==
    IF idx > Len(after) THEN <<>>
    ELSE (IF idx > Len(before)
          THEN << [path |-> key \o "." \o ToString(idx - 1), type |-> "added",
                   oldValue |-> Undefined, newValue |-> after[idx]] >>
          ELSE IF before[idx] # after[idx]
          THEN << [path |-> key \o "." \o ToString(idx - 1), type |-> "modified",
                   oldValue |-> before[idx], newValue |-> after[idx]] >>
          ELSE <<>>)
         \o IndexRecords(key, before, after, idx + 1)

ScalarElements(arr) == \A k \in 1..Len(arr[2]) : arr[2][k][1] \notin {"array", "object"}

\* C6 as amended: arrays are recursed into like mappings, with the indices as
\* keys. A field that is an array on one side and an array or mapping on the
\* other never yields a record at its own path; for two arrays of scalars
\* the records are exactly, per index of current in order, Added at
\* path.index when previous is shorter and Modified at path.index when the
\* two elements differ. One Modified record at the array's own path is what
\* an array against a scalar or null yields.
ArraysAreDiffedPerIndex ==
    (Diffed /\ obj1[1] = "object" /\ obj2[1] = "object") =>
        \A k \in 1..Len(obj2[2]) :
            LET key == obj2[2][k][1]
                v1 == Get(obj1, key)
                v2 == obj2[2][k][2]
                under == RecordsUnder(differences, key)
            IN (HasKey(obj1, key) /\ (v1[1] = "array" \/ v2[1] = "array")) =>
                   /\ (IsObjectLike(v1) /\ IsObjectLike(v2)) =>
                          \A n \in 1..Len(under) : under[n].path # key
                   /\ (v1[1] = "array" /\ v2[1] = "array"
                           /\ ScalarElements(v1) /\ ScalarElements(v2)) =>
                          under = IndexRecords(key, v1[2], v2[2], 1)
                   /\ (~IsObjectLike(v1) \/ ~IsObjectLike(v2)) =>
                          under = << [path |-> key, type |-> "modified",
                                      oldValue |-> v1, newValue |-> v2] >>

\* C6 witness: meta [1] against meta [2, 1] gave one Modified record at
\* meta.0 and one Added record at meta.1, none at meta
ArraysAreDiffedPerIndexWitness ==
    /\ Diffed
    /\ Get(obj1, "meta") = Arr(<< Num(1) >>)
    /\ Get(obj2, "meta") = Arr(<< Num(2), Num(1) >>)
    /\ differences = << [path |-> "meta.0", type |-> "modified",
                         oldValue |-> Num(1), newValue |-> Num(2)],
                        [path |-> "meta.1", type |-> "added",
                         oldValue |-> Undefined, newValue |-> Num(1)] >>

\* the values a key is recursed into: two mappings, and with arraysToo two
\* values each of which is a mapping or an array
RecursedInto(v1, v2, arraysToo) ==
    IF arraysToo
    THEN v1[1] \in {"object", "array"} /\ v2[1] \in {"object", "array"}
    ELSE v1[1] = "object" /\ v2[1] = "object"

RECURSIVE FieldDiffsFrom(_, _, _, _, _)
\* the records of the per-key rules for the keys of current from position n on,
\* in the order of current's keys
FieldDiffsFrom(previous, current, parentPath, n, arraysToo) ==
    IF n > Len(ForInKeys(current)) THEN <<>>
    ELSE LET key == ForInKeys(current)[n]
             p == IF parentPath = "" THEN key ELSE parentPath \o "." \o key
             before == Get(previous, key)
             after == Get(current, key)
             forKey ==
                 CASE ~HasKey(previous, key) ->
                         << [path |-> p, type |-> "added",
                             oldValue |-> Undefined, newValue |-> after] >>
                   [] HasKey(previous, key) /\ RecursedInto(before, after, arraysToo) ->
                         FieldDiffsFrom(before, after, p, 1, arraysToo)
                   [] HasKey(previous, key) /\ ~RecursedInto(before, after, arraysToo)
                         /\ ~DeepEqual(before, after) ->
                         << [path |-> p, type |-> "modified",
                             oldValue |-> before, newValue |-> after] >>
                   [] OTHER -> <<>>
         IN forKey \o FieldDiffsFrom(previous, current, parentPath, n + 1, arraysToo)

\* C20: for two mappings the result is, per key of current in order: one Added
\* record when previous lacks the key; the records of the recursion at path
\* parentPath.key when both values are mappings; one Modified record when the
\* two values are otherwise unequal; nothing when they are equal.
DiffVisitsKeysOfCurrentRecursingIntoMappings ==
    (Diffed /\ obj1[1] = "object" /\ obj2[1] = "object") =>
        differences = FieldDiffsFrom(obj1, obj2, "", 1, FALSE)

\* C20 as amended: the same per-key rules, with the recursion entered whenever
\* both values are mappings or arrays (an array's keys are its indices), so
\* that a Modified record is produced only when one of the two values is a
\* scalar or null.
DiffVisitsKeysOfCurrentRecursingIntoObjects ==
    (Diffed /\ obj1[1] = "object" /\ obj2[1] = "object") =>
        differences = FieldDiffsFrom(obj1, obj2, "", 1, TRUE)

\* C20 witness: { tags: [1], meta: { a: 1 } } against { tags: [], meta: { a: null } }
\* gave nothing for tags (recursed into, no index of current to visit) and one
\* Modified record at meta.a (recursed into, scalar against null)
DiffVisitsKeysOfCurrentRecursingIntoObjectsWitness ==
    /\ Diffed
    /\ obj1 = Obj(<< <<"tags", Arr(<< Num(1) >>)>>, <<"meta", Obj(<< <<"a", Num(1)>> >>)>> >>)
    /\ obj2 = Obj(<< <<"tags", Arr(<<>>)>>, <<"meta", Obj(<< <<"a", Null>> >>)>> >>)
    /\ differences = << [path |-> "meta.a", type |-> "modified",
                         oldValue |-> Num(1), newValue |-> Null] >>

----------------------------------------------------------------------------
(* Properties of generateComparisonReport and of the store *)

\* a <= b on JavaScript numbers (false as soon as one side is NaN)
NumLeq(a, b) ==
    CASE a = NaN \/ b = NaN -> FALSE
      [] a = NegInfinity \/ b = PosInfinity -> TRUE
      [] a = PosInfinity \/ b = NegInfinity -> FALSE
      [] OTHER -> a[2] <= b[2]

\* C8: the report over an empty snapshot store has iterations = [],
\* comparisons = [] and statistics that are all 0: no NaN, no infinity.
EmptyStoreReportIsZero ==
    (report # <<>> /\ report[1].iterations = <<>>) =>
        /\ report[1].comparisons = <<>>
        /\ report[1].statistics.totalNewItems = 0
        /\ report[1].statistics.totalRemovedItems = 0
        /\ report[1].statistics.totalModifiedItems = 0
        /\ report[1].statistics.averageItemsPerIteration = Num(0)
        /\ report[1].statistics.minItems = Num(0)
        /\ report[1].statistics.maxItems = Num(0)

\* C9: for a store of n snapshots compareFeeds returns max(0, n-1)
\* comparisons, and the k-th compares snapshots k and k+1: it carries their
\* timestamps and item counts, and iteration = k+1.
ComparisonsAreAdjacentPairs ==
    lastCall = "compareFeeds" =>
        /\ Len(comparisons) = (IF Len(feedFiles) = 0 THEN 0 ELSE Len(feedFiles) - 1)
        /\ \A k \in 1..Len(comparisons) :
              /\ comparisons[k].iteration = k + 1
              /\ comparisons[k].previousTimestamp = feedFiles[k].timestamp
              /\ comparisons[k].timestamp = feedFiles[k + 1].timestamp
              /\ comparisons[k].changes.totalItems.previous = Len(PreviousItemsAt(k))
              /\ comparisons[k].changes.totalItems.current = Len(CurrentItemsAt(k))

\* C9 witness: compareFeeds ran over a store of three snapshots
ComparisonsAreAdjacentPairsWitness ==
    /\ lastCall = "compareFeeds"
    /\ Len(feedFiles) = 3
    /\ Len(comparisons) = 2
    /\ Len(PreviousItemsAt(2)) # Len(PreviousItemsAt(1))

\* C10: in every report, statistics.minItems <= iterations[k].itemCount
\* <= statistics.maxItems for every entry k of iterations[].
ItemCountsWithinMinMax ==
    report # <<>> =>
        \A k \in 1..Len(report[1].iterations) :
            /\ NumLeq(report[1].statistics.minItems, Num(report[1].iterations[k].itemCount))
            /\ NumLeq(Num(report[1].iterations[k].itemCount), report[1].statistics.maxItems)

\* C10 witness: a report over snapshots of different sizes
ItemCountsWithinMinMaxWitness ==
    /\ report # <<>>
    /\ Len(report[1].iterations) >= 2
    /\ report[1].statistics.minItems = Num(0)
    /\ report[1].statistics.maxItems = Num(2)

----------------------------------------------------------------------------
(* Properties of run() *)

\* C11: fail-fast. Once a fetch of run() has failed, the run is in its terminal
\* failed state: the failed fetch is the last thing the run did (no later fetch,
\* no interval wait, generateComparisonReport not entered), no report was
\* produced and the caller holds an error.
FailedFetchEndsRun ==
    \A k \in 1..Len(runEvents) :
        runEvents[k][1] = "fetchFailed" =>
            /\ k = Len(runEvents)
            /\ pc = "failed"
            /\ thrown
            /\ thrownError # Undefined
            /\ report = <<>>

\* C11 witness: the second fetch of a run of two iterations failed
FailedFetchEndsRunWitness ==
    /\ pc = "failed"
    /\ lastCall = "run"
    /\ Len(runEvents) = 3
    /\ runEvents[1][1] = "fetch"
    /\ runEvents[2][1] = "wait"
    /\ runEvents[3][1] = "fetchFailed"

\* the error object holds the iteration number n: as a property of its own or
\* inside its context property
CarriesIteration(error, n) ==
    \/ Get(error, "iteration") = Num(n)
    \/ Get(Get(error, "context"), "iteration") = Num(n)
    \/ Get(error, "context") = Num(n)

\* C12 as stated: the error run() propagates after a failed fetch carries the
\* index of the failing iteration (counted from 1, or from 0 as the loop does).
PropagatedErrorCarriesIteration ==
    (pc = "failed" /\ lastCall = "run") =>
        (CarriesIteration(thrownError, i + 1) \/ CarriesIteration(thrownError, i))

\* C12 amended: the error run() propagates after a failed fetch is the error the
\* fetch rejected with, unchanged; it has no iteration and no context property.
\* The failing iteration is left in this.currentIteration only.
PropagatedErrorIsFetchError ==
    \A k \in 1..Len(runEvents) :
        runEvents[k][1] = "fetchFailed" =>
            /\ thrownError = runEvents[k][2]
            /\ Get(thrownError, "iteration") = Undefined
            /\ Get(thrownError, "context") = Undefined
            /\ currentIteration = i
            /\ currentIteration = Cardinality({e \in 1..Len(runEvents) : runEvents[e][1] = "fetch"})

\* C12 witness: run() rethrew the SyntaxError of its second fetch
PropagatedErrorIsFetchErrorWitness ==
    /\ pc = "failed"
    /\ lastCall = "run"
    /\ i = 1
    /\ thrownError = ParseError
    /\ runEvents[Len(runEvents)] = <<"fetchFailed", ParseError>>

----------------------------------------------------------------------------
(* Snapshots without an items field *)

\* snapshot k of the store is a JSON object that has no items field
Malformed(k) ==
    /\ feedFiles[k].data[1] = "object"
    /\ \A m \in 1..Len(feedFiles[k].data[2]) : feedFiles[k].data[2][m][1] # "items"

\* the ids of the items of snapshot k, in order
ItemIdsAt(k) ==
    LET items == ItemsOrEmpty(feedFiles[k].data)
    IN [m \in 1..Len(items) |-> PostId(items[m])]

\* in comps, snapshot k is compared as an empty list: against its predecessor
\* everything is removed, against its successor everything is new
ComparedAsEmpty(comps, k) ==
    /\ k >= 2 =>
          /\ comps[k - 1].changes.totalItems.current = 0
          /\ comps[k - 1].changes.newItems = <<>>
          /\ comps[k - 1].changes.modifiedItems = <<>>
          /\ IdsOf(comps[k - 1].changes.removedItems) = ItemIdsAt(k - 1)
    /\ k < Len(feedFiles) =>
          /\ comps[k].changes.totalItems.previous = 0
          /\ comps[k].changes.removedItems = <<>>
          /\ comps[k].changes.modifiedItems = <<>>
          /\ IdsOf(comps[k].changes.newItems) = ItemIdsAt(k + 1)

\* the item counts of the snapshots that do have an items array
WellFormedCounts ==
    {Len(ItemsOrEmpty(feedFiles[k].data)) : k \in {m \in 1..Len(feedFiles) : ~Malformed(m)}}

FetchWaitAlternation(n) ==
    [k \in 1..(2 * n - 1) |->
        IF k % 2 = 1 THEN <<"fetch", (k + 1) \div 2>> ELSE <<"wait", k \div 2>>]

\* what run() did inside its loop
LoopEvents == SelectSeq(runEvents, LAMBDA e : e[1] # "report")

\* C14: a successful run() with N iterations called the fetch exactly N times and
\* waited exactly N-1 times: one wait after each of the fetches 1..N-1, before
\* the next fetch, and none after the last fetch.
SuccessfulRunFetchesAndWaits ==
    (runEvents # <<>> /\ pc \in {"completed", "reported"}) =>
        /\ LoopEvents = FetchWaitAlternation(iterations)
        /\ Cardinality({k \in 1..Len(runEvents) : runEvents[k][1] = "fetch"}) = iterations
        /\ Cardinality({k \in 1..Len(runEvents) : runEvents[k][1] = "wait"}) = iterations - 1
        /\ Len(feedFiles) >= iterations
        /\ \A k \in 1..iterations :
              feedFiles[Len(feedFiles) - iterations + k].iteration = k

\* C14 witness: a run of two iterations has fetched, waited, fetched and reported
SuccessfulRunFetchesAndWaitsWitness ==
    /\ pc = "reported"
    /\ iterations = 2
    /\ runEvents = << <<"fetch", 1>>, <<"wait", 1>>, <<"fetch", 2>>, <<"report", 2>> >>

----------------------------------------------------------------------------
(* Properties of the snapshot store *)

\* C15: after any sequence of public operations the snapshots of the store are
\* in strictly increasing iteration order: the k-th stored snapshot has
\* iteration k, every iteration is >= 1 and no two snapshots share an iteration.
StoreInIterationOrder ==
    /\ \A k \in 1..Len(feedFiles) : feedFiles[k].iteration = k /\ feedFiles[k].iteration >= 1
    /\ \A k, m \in 1..Len(feedFiles) :
          k # m => feedFiles[k].iteration # feedFiles[m].iteration

\* the steps of run() between its states; Aggregating is the inside of the step
\* from completed to reported
RunTransitions ==
    { <<"idle", "acquiring">>, <<"reported", "acquiring">>, <<"failed", "acquiring">>,
      <<"acquiring", "waiting">>, <<"acquiring", "completed">>, <<"acquiring", "failed">>,
      <<"waiting", "acquiring">>, <<"completed", "reported">> }

----------------------------------------------------------------------------
(* Properties of downloadAllFromFeed and downloadVideo *)

\* the downloadVideo call for video k has started and has not settled
InFlight(k) == downloads[k].st \in {"requesting", "writing"}

\* the number of the batch that position k of the list falls into
BatchNumber(k) == (k - 1) \div maxConcurrent[2]

ExistingFileIsSkippedUnlessOverwrite ==
    \A k \in 1..Len(videos) :
        (downloads[k].st # "pending" /\ downloads[k].existed) =>
            /\ ~overwrite =>
                  /\ downloads[k].st = "resolved"
                  /\ ~downloads[k].requested
                  /\ \A p \in Paths : fileSystem[p][2] # k
                  /\ fileSystem[VideoPath(videos[k])] # AbsentFile
                  /\ (batchStart = NaN \/ k <= batchStart[2]) =>
                        \E r \in 1..Len(results) : results[r] = VideoPath(videos[k])
            /\ overwrite =>
                  /\ downloads[k].requested
                  /\ downloads[k].st = "resolved" =>
                        /\ fileSystem[VideoPath(videos[k])][1] \in {"partial", "complete"}
                        /\ fileSystem[MetadataPath(videos[k])][1] = "complete"
            /\ downloads[k].requested => overwrite

\* C19 witness: without overwrite, the download of "cat video?" returned the path
\* of the file an earlier process had left, which is untouched, while "dog" was
\* downloaded
ExistingFileIsSkippedUnlessOverwriteWitness ==
    /\ ~overwrite
    /\ downloadPc = "returned"
    /\ Len(videos) = 2
    /\ videos[1].title = "cat video?"
    /\ videos[2].title = "dog"
    /\ downloads[1].existed
    /\ ~downloads[1].requested
    /\ fileSystem["videos/cat_video.mp4"] = OldFile
    /\ fileSystem["metadata/cat_video_metadata.json"] = OldFile
    /\ fileSystem["videos/dog.mp4"] = <<"complete", 2>>
    /\ results = <<"videos/cat_video.mp4", "videos/dog.mp4">>

\* the paths of the downloads that resolved, in the order of the input list
PathsOfResolved ==
    FilterSeq([k \in 1..Len(videos) |-> VideoPath(videos[k])],
              [k \in 1..Len(videos) |-> downloads[k].st = "resolved"], 1)

\* C24: no video is attempted twice, and when downloadAllFromFeed returns, every
\* video of the input has been attempted exactly once, whatever the other
\* downloads did, and the returned list holds exactly the paths of the
\* downloads that resolved, in input order.
EveryVideoAttemptedOnceAndSuccessesReturned ==
    /\ \A k \in 1..Len(videos) : downloads[k].calls <= 1
    /\ downloadPc = "returned" =>
          /\ \A k \in 1..Len(videos) :
                /\ downloads[k].calls = 1
                /\ downloads[k].st \in {"resolved", "rejected"}
          /\ results = PathsOfResolved

\* C26: every round of the batching loop of downloadAllFromFeed strictly advances
\* the batch start index or ends the loop, whatever number maxConcurrent is,
\* so that the loop ends after finitely many rounds.
EveryRoundAdvancesBatchStart ==
    [][(downloadPc = "awaiting" /\ downloadPc' = "loop") =>
          \/ ~JsLess(batchStart', Len(videos))
          \/ batchStart'[2] > batchStart[2]]_vars

\* C27: two downloadVideo calls for distinct videos that are in flight at the
\* same time have distinct video, thumbnail and metadata paths, so that they
\* never write to the same file.
ConcurrentDownloadsWriteDistinctFiles ==
    \A j, k \in 1..Len(videos) :
        (InFlight(j) /\ InFlight(k) /\ videos[j].id # videos[k].id) =>
            /\ VideoPath(videos[j]) # VideoPath(videos[k])
            /\ ThumbnailPath(videos[j]) # ThumbnailPath(videos[k])
            /\ MetadataPath(videos[j]) # MetadataPath(videos[k])

----------------------------------------------------------------------------
(* Properties of the retry wrappers *)

RetryEnded == retryPc \in {"returned", "threw"}

\* C18: with maxAttempts >= 1 a retry wrapper invokes the operation at least once
\* and at most maxAttempts times, never again after an invocation that
\* succeeded, and it always ends: it returns the result of the first successful
\* invocation or it throws.
RetryIsBoundedAndEnds ==
    /\ [](maxAttempts >= 1 =>
            /\ Len(outcomes) <= maxAttempts
            /\ \A k \in 1..(Len(outcomes) - 1) : outcomes[k][1] = "rejected"
            /\ RetryEnded => Len(outcomes) >= 1
            /\ retryPc = "returned" =>
                  /\ outcomes[Len(outcomes)][1] = "resolved"
                  /\ retryResult = outcomes[Len(outcomes)][2]
            /\ retryPc = "threw" =>
                  \A k \in 1..Len(outcomes) : outcomes[k][1] = "rejected"
            /\ (outcomes # <<>> /\ outcomes[Len(outcomes)][1] = "resolved") =>
                  retryPc = "returned")
    /\ <>RetryEnded

\* C18 witness: the third of three allowed invocations succeeded and its result
\* was returned
RetryIsBoundedAndEndsWitness ==
    /\ maxAttempts = 3
    /\ retryPc = "returned"
    /\ Len(outcomes) = 3
    /\ Len(delays) = 2
    /\ retryResult = ResultOf(3)

----------------------------------------------------------------------------
(* Properties of run() and of the store, continued *)

\* the positions of runEvents that hold an event of the given kind
EventsOfKind(kind) == {e \in 1..Len(runEvents) : runEvents[e][1] = kind}

\* C21: within run() the report is built only after all N snapshots have been
\* appended, when the store holds as many snapshots as the configured
\* iterations and no fetch or wait is pending, and at most once per run.
ReportBuiltOnceWhenStoreHoldsIterations ==
    /\ Cardinality(EventsOfKind("report")) <= 1
    /\ \A e \in EventsOfKind("report") :
          /\ e = Len(runEvents)
          /\ pc = "reported"
          /\ Cardinality(EventsOfKind("fetch")) = iterations
          /\ Cardinality(EventsOfKind("fetchFailed")) = 0
          /\ runEvents[e][2] = iterations
          /\ Len(feedFiles) = iterations

\* C22: a call of compareFeeds or generateComparisonReport (by itself or at the
\* end of run(), and with the getObjectDifferences calls made inside) leaves
\* the store as it was: the same snapshots with the same iteration, timestamp
\* and data. What compareFeeds returns depends on the store only, so a second
\* call on the same store returns an equal result.
DiffingLeavesStoreUnchanged ==
    /\ [][(\/ lastCall' \in {"compareFeeds", "generateComparisonReport"}
           \/ (pc = "completed" /\ pc' = "reported")) =>
             /\ Len(feedFiles') = Len(feedFiles)
             /\ \A k \in 1..Len(feedFiles) :
                   /\ feedFiles'[k].iteration = feedFiles[k].iteration
                   /\ feedFiles'[k].timestamp = feedFiles[k].timestamp
                   /\ feedFiles'[k].data = feedFiles[k].data
             /\ (lastCall = "compareFeeds" /\ lastCall' = "compareFeeds") =>
                   comparisons' = comparisons]_vars
    /\ [](lastCall = "compareFeeds" => comparisons = compareFeeds(feedFiles))

\* C22 witness: compareFeeds was called on a store of three snapshots and returned
\* two comparisons, the store still holding the three
DiffingLeavesStoreUnchangedWitness ==
    /\ lastCall = "compareFeeds"
    /\ Len(feedFiles) = 3
    /\ Len(comparisons) = 2
    /\ feedFiles[1].data = Feed(<< LikesItem("a", 1), LikesItem("b", 2) >>)
    /\ feedFiles[2].data = Feed(<< LikesItem("b", 5), VideoItem("c", "sora", 1) >>)
    /\ comparisons[1].changes.modifiedItems # <<>>

\* a step in which a fetchFeed() call, direct or of the loop of run(), rejects
FetchRejects == thrown' /\ (lastCall' = "fetchFeed" \/ (pc = "acquiring" /\ pc' = "failed"))

\* C25: the store grows only by a fetchFeed() that succeeds, and by one snapshot;
\* a fetchFeed() that rejects (command failed, file missing, invalid JSON) leaves
\* the store as it was and rethrows that error; after a failed run the store
\* holds exactly the snapshots of the iterations that succeeded before the
\* failure.
StoreHoldsOnlySuccessfulFetches ==
    /\ [][/\ FetchRejects => (feedFiles' = feedFiles /\ thrownError' \in FetchErrors)
          /\ feedFiles' # feedFiles =>
                /\ ~thrown'
                /\ lastCall' = "fetchFeed" \/ pc = "acquiring"
                /\ \E data \in FeedPayloads :
                      feedFiles' = Append(feedFiles,
                          [timestamp |-> now, iteration |-> currentIteration' + 1,
                           data |-> data])]_vars
    /\ [](pc = "failed" =>
            /\ Len(feedFiles) = Cardinality(EventsOfKind("fetch"))
            /\ \A k \in 1..Len(feedFiles) : feedFiles[k].iteration = k
            /\ Len(feedFiles) = i)

----------------------------------------------------------------------------
(* Properties of the retry wrappers, continued *)

\* the attempts made so far that another attempt follows or is about to follow
FollowedAttempts ==
    IF retryPc \in {"calling", "delaying"} THEN 1..Len(outcomes) ELSE 1..(Len(outcomes) - 1)

\* an attempt is followed by another only when it failed with a retriable error
\* and attempts were left, and a delay is slept after exactly these attempts; a
\* failed attempt that is not followed ends the wrapper with a throw; a first
\* error that is not retriable is thrown after that one invocation
RetriesOnlyRetriableErrors ==
    /\ \A k \in FollowedAttempts :
          /\ outcomes[k][1] = "rejected"
          /\ Retriable(wrapper, outcomes[k][2])
          /\ k < maxAttempts
    /\ Len(delays) = (IF retryPc = "calling" THEN Len(outcomes) ELSE Cardinality(FollowedAttempts))
    /\ (outcomes[1][1] = "rejected" /\ ~Retriable(wrapper, outcomes[1][2])) =>
          /\ retryPc = "threw"
          /\ Len(outcomes) = 1
          /\ delays = <<>>
    /\ (outcomes[Len(outcomes)][1] = "rejected" /\ Len(outcomes) \notin FollowedAttempts) =>
          retryPc = "threw"

\* the error a wrapper throws for the error it gave up on: that error, or a new
\* one that carries its message
BuiltFrom(thrownValue, error) ==
    \/ thrownValue = error
    \/ /\ wrapper = "RetryManager.execute"
       /\ error.name \notin {"AppError", "NetworkError"}
       /\ thrownValue.name = "AppError"
       /\ thrownValue.message = error.message
       /\ thrownValue.code =
             (IF error.name = "string" THEN Str("UNKNOWN_ERROR") ELSE Str("UNEXPECTED_ERROR"))
    \/ /\ wrapper = "SoraAPI.getRawFeed"
       /\ error.name = "AxiosError"
       /\ thrownValue.name = "Error"
       /\ thrownValue.message = "API request failed: " \o error.message

ReportCountsAgreeWithStore ==
    \A r \in 1..Len(report) :
       /\ report[r].summary.totalIterations = Len(report[r].iterations)
       /\ (lastCall = "generateComparisonReport" \/ pc = "reported")
             => Len(report[r].iterations) = Len(feedFiles)
       /\ Len(report[r].iterations) >= 1
             => Len(report[r].comparisons) = Len(report[r].iterations) - 1

----------------------------------------------------------------------------
(* Properties of the request and response logging *)

\* the header entries of the log entries emitted so far
LoggedHeaders ==
    UNION { {logEntries[e].context.headers[2][h] :
                h \in 1..Len(logEntries[e].context.headers[2])} :
            e \in 1..Len(logEntries) }

\* C28: the cookie string given to SoraAPI never reaches a log entry: no
\* header that logRequest or logResponse emits is named cookie, authorization
\* or x-api-key in any letter case, none carries the cookie string, and the
\* entries are the ones a run with any other cookie string emits
CookieNeverReachesLog ==
    /\ \A header \in LoggedHeaders :
         /\ toLowerCase(header[1]) \notin {"authorization", "cookie", "x-api-key"}
         /\ header[2] # cookies
    /\ \A e \in 1..Len(logEntries) :
         \A other \in CookieArguments :
           (/\ logEntries[e].context.status = Undefined
            /\ other[1] = "string" /\ other[2] # ""
            /\ cookies[1] = "string" /\ cookies[2] # "")
           => logEntries[e].context.headers = sanitizeHeaders(ClientHeaders(other))

----------------------------------------------------------------------------
(* Properties of escapeControlCharsInsideStrings *)

\* the input with every raw control character that lies inside a string
\* literal replaced by its escape, the character after a backslash included;
\* a string literal runs from a quote to the next quote that no backslash
\* escapes
RECURSIVE ControlCharsInsideStringsEscaped(_, _, _)
ControlCharsInsideStringsEscaped(input, inString, escape) ==
    IF input = "" THEN ""
    ELSE LET ch == Head(input)
             rest == Tail(input)
         IN  IF ~inString
             THEN ch \o ControlCharsInsideStringsEscaped(rest, ch = "\"", FALSE)
             ELSE IF charCodeAt(ch) < 32
             THEN EscapedChar(ch) \o ControlCharsInsideStringsEscaped(rest, TRUE, FALSE)
             ELSE ch \o ControlCharsInsideStringsEscaped(rest, escape \/ ch # "\"",
                                                         ~escape /\ ch = "\\")

\* the raw control characters of s that lie inside a string literal
RECURSIVE RawControlCharsInsideStrings(_, _, _)
RawControlCharsInsideStrings(s, inString, escape) ==
    IF s = "" THEN 0
    ELSE LET ch == Head(s)
             rest == Tail(s)
         IN  IF ~inString
             THEN RawControlCharsInsideStrings(rest, ch = "\"", FALSE)
             ELSE (IF charCodeAt(ch) < 32 THEN 1 ELSE 0)
                  + RawControlCharsInsideStrings(rest, escape \/ ch # "\"",
                                                 ~escape /\ ch = "\\")

\* C30: escapeControlCharsInsideStrings returns the input with exactly the raw
\* control characters inside a string literal replaced by \n, \r, \t or
\* \u00XX, every other character copied unchanged in order and an escaped
\* quote not ending the string, so that no raw control character is left
\* inside a string literal; applied to its own output it changes nothing
EscapesExactlyControlCharsInsideStrings ==
    /\ escapePc \in {"escaped", "escapedAgain"} =>
          /\ sanitized = ControlCharsInsideStringsEscaped(content, FALSE, FALSE)
          /\ RawControlCharsInsideStrings(sanitized, FALSE, FALSE) = 0
    /\ escapePc = "escapedAgain" => sanitizedAgain = sanitized

====
